---- MODULE Spec2Model ----
(***************************************************************************)
(* Incremental marketplace order synchronisation (Contazoom).              *)
(*                                                                         *)
(* The module models the sync route (src/unnamed/part_002) component by    *)
(* component.  Every component has its own variables, its own actions and  *)
(* its own specification; the variables of the other components are left   *)
(* unchanged by it:                                                        *)
(*   SpecRetry  - fetchWithRetry, the retrying transport                   *)
(*   SpecSave   - deduplicateOrders / saveVendasBatch, the persistence     *)
(*   SpecSplit  - fetchOrdersInDateRange, the period splitter              *)
(*   SpecSync   - fetchAllOrdersForAccount + POST, one account's runs      *)
(*   SpecRun    - POST: the account loop, the refresh mutex, the run's end *)
(*   SpecPaging - PAGE_FETCH_CONCURRENCY and the window of recent pages    *)
(*   SpecQueue  - enqueueSales / dequeueSales over the store client        *)
(***************************************************************************)
EXTENDS Integers, Sequences, FiniteSets, TLC

VARIABLES
    rt,         \* the current fetchWithRetry call (SpecRetry)
    db,         \* the rows of the meliVenda table (SpecSave)
    sv,         \* the current saveVendasBatch invocation (SpecSave)
    up,         \* the account's orders upstream: groups [day, n], newest first
    latency,    \* ms one upstream request takes (0 where time is not modelled)
    now,        \* ms elapsed since the account's fetch started (Date.now() - startTime)
    late,       \* kinds of order-search request started with the budget exceeded
    faults,     \* failed upstream responses so far (bounded by MaxFaults)
    stack,      \* the call stack of fetchOrdersInDateRange, innermost frame last
    failed,     \* whether an upstream or store request of the sync has failed so far
    fa,         \* the current fetchAllOrdersForAccount call (SpecSync)
    run,        \* the current POST run: totals and hasMoreToSync (SpecSync)
    vendas,     \* the account's persisted orders, as runs of positions (SpecSync)
    rq,         \* the invocation of POST under study (SpecRun)
    peers,      \* other invocations of POST at their token refresh (SpecRun)
    tokenRefreshMutex,  \* account id -> the refresh promise registered (SpecRun)
    refreshes,  \* the refresh promises: [id, account, state] (SpecRun)
    pf,         \* the window of recent pages under a configuration (SpecPaging)
    rd,          \* the buffer: client, flag, keys, index, clock, bookkeeping (SpecQueue)
    calc,        \* the last call of a pure calculation: function, inputs, result (SpecCalc)
    en,          \* the enrichment of one page of orders (SpecEnrich)
    wk,          \* the background worker: invocation, totals, SKU cache, rows saved (SpecWorker)
    au          \* the sync handler's authentication and its follow-up request (SpecAuth)

retryVars == <<rt>>
saveVars == <<db, sv>>
envVars == <<up, latency>>
splitVars == <<now, late, faults, stack, failed>>
syncVars == <<fa, run, vendas>>
runVars == <<rq, peers, tokenRefreshMutex, refreshes>>
pagingVars == <<pf>>
queueVars == <<rd>>
calcVars == <<calc>>
enrichVars == <<en>>
workerVars == <<wk>>
authVars == <<au>>
vars == <<rt, db, sv, up, latency, now, late, faults, stack, failed, fa, run, vendas,
          rq, peers, tokenRefreshMutex, refreshes, pf, rd, calc, en, wk, au>>

Last(s) == s[Len(s)]

(***************************************************************************)
(*                    Retrying transport: fetchWithRetry                   *)
(***************************************************************************)

\* Bound: the retry budgets (maxRetries) tried are 0..MaxRetryBudget.
MaxRetryBudget == 3

\* maxRetries: number = 3, the default budget (every caller passes 3).
DefaultMaxRetries == 3

\* const baseDelay = 1000
BaseDelay == 1000

\* An HTTP status the upstream can answer with; NetErr stands for fetch()
\* rejecting (a network-level failure), NoResp for "no response yet" (null).
OkStatuses == {200}
HttpStatuses == {200, 400, 401, 403, 404, 429, 500, 502, 503, 504}
NetErr == 0 - 1
NoResp == 0

\* Math.random() * 1000 lies in [0, 1000): its two extremes.
JitterValues == {0, 999}

ResponseOk(status) == status \in OkStatuses

IsRetryableErrorLoose(status) == status \in {400, 429, 500, 502, 503, 504}
\* function isRetryableError(status)
IsRetryableError(status) == status \in {429, 500, 502, 503, 504}

IsAuthError(status) == status = 401 \/ status = 403

RECURSIVE Pow2(_)
Pow2(k) == IF k <= 0 THEN 1 ELSE 2 * Pow2(k - 1)

BackoffDelayLinear(attempt) == BaseDelay * (attempt + 1)
\* const delay = baseDelay * Math.pow(2, attempt)
BackoffDelay(attempt) == BaseDelay * Pow2(attempt)

FirstAttemptWarningEvery(userId, attempt) == userId
\* if (userId && attempt === 0) sendProgressToUser(... "Tentando novamente...")
FirstAttemptWarning(userId, attempt) == userId /\ attempt = 0

LoopGuardInclusive(attempt, maxRetries) == attempt <= maxRetries
\* for (let attempt = 0; attempt < maxRetries; attempt++)
LoopGuard(attempt, maxRetries) == attempt < maxRetries

AfterLoopAlwaysThrow(lastResponse) == "thrown"
\* after the loop: if (lastResponse && !lastResponse.ok) return lastResponse;
\* throw lastError || new Error(...)
AfterLoop(lastResponse) ==
    IF lastResponse # NoResp /\ ~ResponseOk(lastResponse) THEN "returned" ELSE "thrown"

RetryIdle ==
    [pc |-> "idle", maxRetries |-> DefaultMaxRetries, userId |-> FALSE, attempt |-> 0,
     lastResponse |-> NoResp, lastError |-> "none", requests |-> 0,
     hist |-> <<>>, waits |-> <<>>, events |-> <<>>, result |-> NoResp]

\* Entering the loop with `attempt`: either the next fetch() is issued or the
\* loop is over and the code after it decides the outcome.
RetryEnter(r, attempt) ==
    IF LoopGuard(attempt, r.maxRetries)
    THEN [r EXCEPT !.attempt = attempt, !.pc = "fetching", !.requests = @ + 1]
    ELSE [r EXCEPT !.attempt = attempt,
                   !.pc = AfterLoop(r.lastResponse),
                   !.result = IF AfterLoop(r.lastResponse) = "returned"
                              THEN r.lastResponse ELSE NoResp]

\* fetchWithRetry(url, options, maxRetries, userId) is called.
RetryCall(n, u) ==
    /\ UNCHANGED <<saveVars, envVars, splitVars, syncVars, runVars, pagingVars, queueVars, calcVars, enrichVars, workerVars, authVars>>
    /\ rt.pc \in {"idle", "returned", "thrown"}
    /\ rt' = RetryEnter([RetryIdle EXCEPT !.maxRetries = n, !.userId = u], 0)

\* await fetch() resolves with a response of the given status (try block).
RetryResponse(status, jitter) ==
    /\ UNCHANGED <<saveVars, envVars, splitVars, syncVars, runVars, pagingVars, queueVars, calcVars, enrichVars, workerVars, authVars>>
    /\ rt.pc = "fetching"
    /\ LET r1 == [rt EXCEPT !.lastResponse = status, !.hist = Append(@, status)] IN
       rt' =
         IF ResponseOk(status)
         THEN [r1 EXCEPT !.pc = "returned", !.result = status]
         ELSE IF IsAuthError(status)
         THEN [r1 EXCEPT !.pc = "returned", !.result = status,
                         !.events = IF rt.userId
                                    THEN Append(@, [kind |-> "auth", attempt |-> rt.attempt])
                                    ELSE @]
         ELSE IF ~IsRetryableError(status)
         THEN [r1 EXCEPT !.pc = "returned", !.result = status]
         ELSE [r1 EXCEPT !.pc = "sleeping",
                         !.lastError = "http",
                         !.events = IF FirstAttemptWarning(rt.userId, rt.attempt)
                                    THEN Append(@, [kind |-> "retrying", attempt |-> rt.attempt])
                                    ELSE @,
                         !.waits = Append(@, [attempt |-> rt.attempt,
                                              delay |-> BackoffDelay(rt.attempt),
                                              jitter |-> jitter])]

\* await fetch() rejects (catch block).
RetryNetworkError(jitter) ==
    /\ UNCHANGED <<saveVars, envVars, splitVars, syncVars, runVars, pagingVars, queueVars, calcVars, enrichVars, workerVars, authVars>>
    /\ rt.pc = "fetching"
    /\ LET r1 == [rt EXCEPT !.lastError = "net", !.hist = Append(@, NetErr)] IN
       rt' =
         IF rt.attempt = rt.maxRetries - 1
         THEN [r1 EXCEPT !.pc = "thrown",
                         !.events = IF rt.userId
                                    THEN Append(@, [kind |-> "exhausted", attempt |-> rt.attempt])
                                    ELSE @]
         ELSE [r1 EXCEPT !.pc = "sleeping",
                         !.events = IF FirstAttemptWarning(rt.userId, rt.attempt)
                                    THEN Append(@, [kind |-> "retrying", attempt |-> rt.attempt])
                                    ELSE @,
                         !.waits = Append(@, [attempt |-> rt.attempt,
                                              delay |-> BackoffDelay(rt.attempt),
                                              jitter |-> jitter])]

\* await sleep(totalDelay) resolves: attempt++ and the loop condition.
RetrySleepDone ==
    /\ UNCHANGED <<saveVars, envVars, splitVars, syncVars, runVars, pagingVars, queueVars, calcVars, enrichVars, workerVars, authVars>>
    /\ rt.pc = "sleeping"
    /\ rt' = RetryEnter(rt, rt.attempt + 1)


(***************************************************************************)
(*        Dedup & batch persistence: deduplicateOrders, saveVendasBatch    *)
(***************************************************************************)

\* Bound: an input batch holds at most MaxBatch orders.
MaxBatch == 3

\* Bound: the batchSize argument (the route passes 50, the default is 100),
\* scaled down so that a batch of MaxBatch orders spans several chunks.
ChunkSize == 2

\* The raw order.id of a payload, as the sequence of its characters; NoId is
\* an absent (undefined / null) or empty id.
NoId == <<>>
RawIds == {NoId, <<"1">>, <<" ", "1">>, <<"2">>}

\* What prepareVendaData derives from a payload (vendaBaseData): 1 or 2; a
\* payload whose preparation throws (caught, returns null) carries BadVal.
BadVal == 0
Vals == {BadVal, 1, 2}

\* The order payloads a batch is drawn from: every raw id with every good
\* value, and one payload whose preparation throws.
Payloads == [id : RawIds, val : Vals \ {BadVal}] \cup {[id |-> <<"2">>, val |-> BadVal]}

RECURSIVE TrimLeft(_)
TrimLeft(s) == IF Len(s) > 0 /\ Head(s) = " " THEN TrimLeft(Tail(s)) ELSE s

RECURSIVE TrimRight(_)
TrimRight(s) ==
    IF Len(s) > 0 /\ Last(s) = " " THEN TrimRight(SubSeq(s, 1, Len(s) - 1)) ELSE s

\* String(rawOrder.id).trim()
Trim(s) == TrimRight(TrimLeft(s))

\* function extractOrderIdFromPayload(order): null is NoId
ExtractOrderIdFromPayload(order) == Trim(order.id)

RECURSIVE DedupFrom(_, _, _, _)
DedupFrom(orders, seen, uniqueOrders, duplicates) ==
    IF orders = <<>>
    THEN [uniqueOrders |-> uniqueOrders, duplicates |-> duplicates]
    ELSE LET order == Head(orders)
             orderId == ExtractOrderIdFromPayload(order)
         IN IF orderId = NoId
            THEN DedupFrom(Tail(orders), seen, Append(uniqueOrders, order), duplicates)
            ELSE IF orderId \in seen
            THEN DedupFrom(Tail(orders), seen, uniqueOrders, duplicates + 1)
            ELSE DedupFrom(Tail(orders), seen \cup {orderId},
                           Append(uniqueOrders, order), duplicates)

DeduplicateOrdersNone(orders) == [uniqueOrders |-> orders, duplicates |-> 0]
\* function deduplicateOrders(orders)
DeduplicateOrders(orders) == DedupFrom(orders, {}, <<>>, 0)

\* async function prepareVendaData(order, userId, skuCache): null is [ok |-> FALSE]
PrepareVendaData(order) ==
    IF ExtractOrderIdFromPayload(order) = NoId \/ order.val = BadVal
    THEN [ok |-> FALSE, orderId |-> NoId, val |-> BadVal]
    ELSE [ok |-> TRUE, orderId |-> ExtractOrderIdFromPayload(order), val |-> order.val]

MapPrepare(batch) == [k \in 1..Len(batch) |-> PrepareVendaData(batch[k])]

RECURSIVE SelectSeqBy(_, _)
SelectSeqBy(s, keep) ==
    IF s = <<>> THEN <<>>
    ELSE IF Head(s) \in keep THEN <<Head(s)>> \o SelectSeqBy(Tail(s), keep)
    ELSE SelectSeqBy(Tail(s), keep)

Range(s) == {s[k] : k \in 1..Len(s)}

\* validData = preparedData.filter(d => d !== null)
ValidData(prepared) == SelectSeqBy(prepared, {d \in Range(prepared) : d.ok})

\* prisma.meliVenda.findMany({ where: { orderId: { in: orderIds } } })
ExistingOrderIdSet(rows, validData) ==
    {d.orderId : d \in {v \in Range(validData) : \E r \in rows : r.orderId = v.orderId}}

\* toCreate = validData.filter(d => !existingOrderIdSet.has(d.orderId))
ToCreate(validData, existing) ==
    SelectSeqBy(validData, {d \in Range(validData) : d.orderId \notin existing})

ToUpdateNever(validData, existing) == <<>>
\* toUpdate = validData.filter(d => existingOrderIdSet.has(d.orderId))
ToUpdate(validData, existing) ==
    SelectSeqBy(validData, {d \in Range(validData) : d.orderId \in existing})

\* prisma.meliVenda.createMany({ data, skipDuplicates: true }): the rows are
\* inserted in order; a row whose orderId a row already carries is skipped.
RECURSIVE CreateMany(_, _)
CreateMany(rows, data) ==
    IF data = <<>> THEN rows
    ELSE CreateMany(
           IF \E r \in rows : r.orderId = Head(data).orderId
           THEN rows
           ELSE rows \cup {[orderId |-> Head(data).orderId, val |-> Head(data).val]},
           Tail(data))

\* prisma.$transaction(toUpdate.map(d => update({ where: { orderId }, data })))
RECURSIVE UpdateAll(_, _)
UpdateAll(rows, data) ==
    IF data = <<>> THEN rows
    ELSE UpdateAll(
           {IF r.orderId = Head(data).orderId THEN [r EXCEPT !.val = Head(data).val] ELSE r
              : r \in rows},
           Tail(data))

IdsOf(data) == [k \in 1..Len(data) |-> data[k].orderId]

Min(a, b) == IF a < b THEN a ELSE b

SaveIdle ==
    [pc |-> "idle", orders |-> <<>>, unique |-> <<>>, duplicates |-> 0, i |-> 0,
     saved |-> 0, errors |-> 0, processed |-> 0, events |-> 0, progress |-> <<>>,
     writes |-> <<>>, old |-> {}, failed |-> FALSE]

\* saveVendasBatch(orders, userId, batchSize) up to its first chunk: the
\* dedup, the empty-batch return and buildSkuCache (skuFails: its query
\* throws, which the outer catch turns into errors = totalOrders - saved).
SaveCall(orders, skuFails) ==
    /\ UNCHANGED <<retryVars, db, envVars, splitVars, syncVars, runVars, pagingVars, queueVars, calcVars, enrichVars, workerVars, authVars>>
    /\ sv.pc = "idle"
    /\ LET dd == DeduplicateOrders(orders)
           totalOrders == Len(dd.uniqueOrders)
           s0 == [SaveIdle EXCEPT !.orders = orders, !.unique = dd.uniqueOrders,
                                  !.duplicates = dd.duplicates, !.old = db]
       IN sv' = IF totalOrders = 0 THEN [s0 EXCEPT !.pc = "done"]
                ELSE IF skuFails
                THEN [s0 EXCEPT !.pc = "done", !.errors = totalOrders, !.failed = TRUE]
                ELSE [s0 EXCEPT !.pc = "chunk"]

\* What one chunk does before it writes (lines 1362-1389): the slice, the
\* prepared and valid data, the existing ids and the create / update sets.
ChunkPlan(rows, unique, i) ==
    LET batch == SubSeq(unique, i + 1, Min(i + ChunkSize, Len(unique)))
        validData == ValidData(MapPrepare(batch))
        existing == ExistingOrderIdSet(rows, validData)
    IN [size |-> Len(batch),
        valid |-> Len(validData),
        toCreate |-> ToCreate(validData, existing),
        toUpdate |-> ToUpdate(validData, existing)]

\* How the store answers one chunk: every statement succeeds, the findMany
\* throws, the createMany throws, the update transaction throws, or both do.
ChunkOutcomes == {"ok", "find", "create", "update", "both"}

UpdateOnlyAfterCreate(createFails) == ~createFails
\* The update transaction has its own try / catch (lines 1413-1436), after
\* the one of createMany (lines 1392-1410): it runs whatever createMany did.
UpdateAttempted(createFails) == TRUE

\* One iteration of the loop over chunks (lines 1361-1444).
SaveChunk(outcome) ==
    /\ UNCHANGED <<retryVars, envVars, splitVars, syncVars, runVars, pagingVars, queueVars, calcVars, enrichVars, workerVars, authVars>>
    /\ sv.pc = "chunk"
    /\ \E p \in {ChunkPlan(db, sv.unique, sv.i)} :
       LET findFails == outcome = "find"
           createFails == outcome \in {"create", "both"}
           updateFails == outcome \in {"update", "both"}
           doCreate == p.toCreate # <<>>
           doUpdate == p.toUpdate # <<>> /\ UpdateAttempted(createFails)
           next == sv.i + ChunkSize
           pcNext == IF next < Len(sv.unique) THEN "chunk" ELSE "done"
       IN IF p.valid = 0
          THEN \* errors += batch.length; processedCount += batch.length; continue
               /\ db' = db
               /\ sv' = [sv EXCEPT !.errors = @ + p.size, !.processed = @ + p.size,
                                   !.i = next, !.pc = pcNext]
          ELSE IF findFails
          THEN \* catch (batchError): errors += batch.length
               /\ db' = db
               /\ sv' = [sv EXCEPT !.errors = @ + p.size, !.processed = @ + p.size,
                                   !.events = @ + 1, !.failed = TRUE,
                                   !.progress = Append(@, sv.processed + p.size),
                                   !.i = next, !.pc = pcNext]
          ELSE LET db1 == IF doCreate /\ ~createFails THEN CreateMany(db, p.toCreate) ELSE db
                   db2 == IF doUpdate /\ ~updateFails THEN UpdateAll(db1, p.toUpdate) ELSE db1
                   okC == IF doCreate /\ ~createFails THEN Len(p.toCreate) ELSE 0
                   okU == IF doUpdate /\ ~updateFails THEN Len(p.toUpdate) ELSE 0
                   koC == IF doCreate /\ createFails THEN Len(p.toCreate) ELSE 0
                   koU == IF doUpdate /\ updateFails THEN Len(p.toUpdate) ELSE 0
                   w1 == IF doCreate
                         THEN <<[stmt |-> "create", ids |-> IdsOf(p.toCreate),
                                 ok |-> ~createFails]>>
                         ELSE <<>>
                   w2 == IF doUpdate
                         THEN <<[stmt |-> "update", ids |-> IdsOf(p.toUpdate),
                                 ok |-> ~updateFails]>>
                         ELSE <<>>
               IN /\ db' = db2
                  /\ sv' = [sv EXCEPT !.saved = @ + okC + okU,
                                      !.errors = @ + koC + koU,
                                      !.failed = @ \/ (koC + koU > 0),
                                      !.writes = @ \o w1 \o w2,
                                      !.processed = @ + p.size,
                                      !.events = @ + 1,
                                      !.progress = Append(@, sv.processed + p.size),
                                      !.i = next, !.pc = pcNext]

\* saveVendasBatch returns { saved, errors }; its locals are gone.
SaveReturn ==
    /\ UNCHANGED <<retryVars, db, envVars, splitVars, syncVars, runVars, pagingVars, queueVars, calcVars, enrichVars, workerVars, authVars>>
    /\ sv.pc = "done"
    /\ sv' = SaveIdle


RECURSIVE SeqsUpTo(_, _)
SeqsUpTo(S, n) ==
    IF n = 0 THEN {<<>>}
    ELSE LET shorter == SeqsUpTo(S, n - 1)
         IN shorter \cup {Append(q, x) : q \in {t \in shorter : Len(t) = n - 1}, x \in S}

\* Every input batch of at most MaxBatch payloads.
Batches == SeqsUpTo(Payloads, MaxBatch)

InitSaveVars == db = {} /\ sv = SaveIdle

(***************************************************************************)
(*                 The upstream order-search endpoint and time             *)
(***************************************************************************)

\* const PAGE_LIMIT = 50
PageLimit == 50

\* const MAX_OFFSET = 9950
MaxOffset == 9950

\* const MAX_EXECUTION_TIME = 30000
MaxExecutionTime == 30000

\* Instants are seconds since 00:00 of day 0 of the model's calendar.
Day == 86400

\* Bound: the clock stops at ClockCap ms, past every threshold the code compares with.
ClockCap == 40000

\* An order of day d was created at noon of that day.
OrderInstant(d) == d * Day + 43200

Group(d, n) == [day |-> d, n |-> n]

RECURSIVE SumN(_)
SumN(groups) == IF groups = <<>> THEN 0 ELSE Head(groups).n + SumN(Tail(groups))

\* paging.total of a search with order.date_created.from / .to
CountInRange(groups, from, to) ==
    SumN(SelectSeq(groups, LAMBDA g : from <= OrderInstant(g.day) /\ OrderInstant(g.day) <= to))

\* The orders newer than `to`: they precede the range in the date_desc order.
CountNewer(groups, to) ==
    SumN(SelectSeq(groups, LAMBDA g : OrderInstant(g.day) > to))

\* results of a search at `offset` with `limit`: the positions (1 = newest
\* order of the account) of the orders returned, as an interval <<lo, hi>>,
\* <<>> when the page is empty.
SearchPage(groups, from, to, offset, limit) ==
    LET cnt == CountInRange(groups, from, to)
        a == CountNewer(groups, to)
    IN IF offset >= cnt THEN <<>>
       ELSE <<a + offset + 1, a + Min(offset + limit, cnt)>>

PageSize(page) == IF page = <<>> THEN 0 ELSE page[2] - page[1] + 1

\* Time passes while a request is awaited.
Elapse(t) == Min(t + latency, ClockCap)

\* The kinds of request started while Date.now() - startTime > MAX_EXECUTION_TIME.
StartedAt(t, kind) == IF t > MaxExecutionTime THEN late \cup {kind} ELSE late

(***************************************************************************)
(*                  Period splitter: fetchOrdersInDateRange                *)
(***************************************************************************)

\* Bound: the model follows the recursion of fetchOrdersInDateRange to this depth.
MaxDepth == 3

\* Bound: at most MaxFaults upstream responses fail between two resets.
MaxFaults == 1

\* An upstream response may fail only while the fault budget lasts.
Answer(ok) == ok \/ faults < MaxFaults

Faulted(ok) == IF ok THEN faults ELSE faults + 1

SubPeriodDaysAlways14(totalInPeriod) == 14
\* const subPeriodDays = totalInPeriod > 50000 ? 7 : 14
SubPeriodDays(totalInPeriod) == IF totalInPeriod > 50000 THEN 7 ELSE 14

\* currentEnd = currentStart + subPeriodDays days, capped at dateTo
CurrentEnd(currentStart, subPeriodDays, dateTo) ==
    Min(currentStart + subPeriodDays * Day, dateTo)

NextStartSameInstant(currentEnd) == currentEnd
\* currentStart = new Date(currentEnd); currentStart.setDate(getDate() + 1)
NextStart(currentEnd) == currentEnd + Day

\* A call of fetchOrdersInDateRange(account, headers, userId, dateFrom, dateTo):
\* its count probe is issued at once.
Frame(dateFrom, dateTo) ==
    [from |-> dateFrom, to |-> dateTo, pc |-> "probe", total |-> 0,
     cur |-> dateFrom, subs |-> <<>>, offset |-> 0, res |-> <<>>,
     pageFailed |-> FALSE]

\* results.push(...) of one page: the results are kept as a sequence of runs
\* <<lo, hi>> of consecutive positions, and a page that continues the last
\* run extends it.
Push(res, page) ==
    IF res # <<>> /\ page[1] = Last(res)[2] + 1
    THEN [res EXCEPT ![Len(res)] = <<@[1], page[2]>>]
    ELSE Append(res, page)

Top == stack[Len(stack)]

SetTop(f) == [stack EXCEPT ![Len(stack)] = f]

\* The count probe (limit 1) is answered: ok with paging.total, or not ok /
\* thrown, which leaves totalInPeriod = 0 and needsSplitting = false.
SplitProbe(ok) ==
    /\ UNCHANGED <<retryVars, saveVars, envVars, syncVars, runVars, pagingVars, queueVars, calcVars, enrichVars, workerVars, authVars>>
    /\ stack # <<>>
    /\ Top.pc = "probe"
    /\ Answer(ok)
    /\ faults' = Faulted(ok)
    /\ failed' = (failed \/ ~ok)
    /\ LET total == IF ok THEN CountInRange(up, Top.from, Top.to) ELSE 0
           t == Elapse(now)
       IN /\ now' = t
          /\ IF total > MaxOffset
             THEN /\ stack' = SetTop([Top EXCEPT !.total = total, !.pc = "split"])
                  /\ late' = late
             ELSE \* while (offset < MAX_OFFSET): the first page is requested
                  /\ stack' = SetTop([Top EXCEPT !.total = total, !.pc = "page"])
                  /\ late' = StartedAt(t, "rangePage")

\* while (currentStart < dateTo): the recursive call on the next sub-period,
\* or the end of the loop (return results).
SplitNext ==
    /\ UNCHANGED <<retryVars, saveVars, envVars, syncVars, runVars, pagingVars, queueVars, calcVars, enrichVars, workerVars, authVars>>
    /\ stack # <<>>
    /\ Top.pc = "split"
    /\ now' = now
    /\ faults' = faults
    /\ failed' = failed
    /\ IF Top.cur < Top.to
       THEN /\ Len(stack) < MaxDepth
            /\ LET currentEnd == CurrentEnd(Top.cur, SubPeriodDays(Top.total), Top.to)
               IN stack' = Append(
                     SetTop([Top EXCEPT !.pc = "wait",
                                        !.subs = Append(@, <<Top.cur, currentEnd>>)]),
                     Frame(Top.cur, currentEnd))
            /\ late' = StartedAt(now, "probe")
       ELSE /\ stack' = SetTop([Top EXCEPT !.pc = "ret"])
            /\ late' = late

\* A recursive call returns: results.push(...subResults) and the next start.
SplitReturn ==
    /\ UNCHANGED <<retryVars, saveVars, envVars, syncVars, runVars, pagingVars, queueVars, calcVars, enrichVars, workerVars, authVars>>
    /\ Len(stack) > 1
    /\ Top.pc = "ret"
    /\ LET parent == stack[Len(stack) - 1]
           rest == SubSeq(stack, 1, Len(stack) - 2)
       IN stack' = Append(rest, [parent EXCEPT !.pc = "split",
                                               !.res = @ \o Top.res,
                                               !.cur = NextStart(Top.to)])
    /\ UNCHANGED <<now, late, faults, failed>>

\* One page of the direct pagination is answered (lines 1135-1223).
SplitPage(ok) ==
    /\ UNCHANGED <<retryVars, saveVars, envVars, syncVars, runVars, pagingVars, queueVars, calcVars, enrichVars, workerVars, authVars>>
    /\ stack # <<>>
    /\ Top.pc = "page"
    /\ Answer(ok)
    /\ faults' = Faulted(ok)
    /\ failed' = (failed \/ ~ok)
    /\ LET page == SearchPage(up, Top.from, Top.to, Top.offset, PageLimit)
           offset == Top.offset + PageSize(page)
           t == Elapse(now)
       IN /\ now' = t
          /\ IF ~ok \/ page = <<>>
             THEN \* if (!response.ok) break; if (orders.length === 0) break
                  /\ stack' = SetTop([Top EXCEPT !.pc = "ret", !.pageFailed = ~ok])
                  /\ late' = late
             ELSE IF offset >= MaxOffset
             THEN /\ stack' = SetTop([Top EXCEPT !.res = Push(@, page), !.offset = offset,
                                                 !.pc = "ret"])
                  /\ late' = late
             ELSE /\ stack' = SetTop([Top EXCEPT !.res = Push(@, page), !.offset = offset])
                  /\ late' = StartedAt(t, "rangePage")

(***************************************************************************)
(*        One account's sync: fetchAllOrdersForAccount and POST            *)
(***************************************************************************)

\* PAGE_FETCH_CONCURRENCY with MELI_PAGE_FETCH_CONCURRENCY unset
PageFetchConcurrency == 2

\* const SAFE_BATCH_SIZE = 100
SafeBatchSize == 100

\* discoveredTotal === null
NoTotal == 0 - 1

\* a Date that is null / undefined
NoDate == 0 - 99999999

\* The first days of the months of the model's calendar: day 0 is 1 January
\* of a common year, the two months before it are November and December.
MonthStartDays == {0 - 61, 0 - 31, 0, 31, 59, 90, 120}

Max(a, b) == IF a > b THEN a ELSE b

MaxOf(S) == CHOOSE x \in S : \A y \in S : y <= x

MinOf(S) == CHOOSE x \in S : \A y \in S : x <= y

\* setDate(1); setHours(0, 0, 0, 0)
MonthStartOf(t) == Day * MaxOf({m \in MonthStartDays : m * Day <= t})

\* setMonth(getMonth() - 1) of a first of month
PrevMonthStart(s) == Day * MaxOf({m \in MonthStartDays : m * Day < s})

\* setMonth(getMonth() + 1); setDate(0); setHours(23, 59, 59, 999)
MonthEnd(s) == Day * MinOf({m \in MonthStartDays : m * Day > s}) - 1

\* new Date(): the day of the run, after every order of the datasets
Today == 100 * Day

\* new Date('2000-01-01') / new Date('2010-01-01'): years before the calendar
StartDate(fullSync) == IF fullSync THEN 0 - 9000 * Day ELSE 0 - 5000 * Day

RECURSIVE DayOfPosition(_, _)
\* the day of the order at position p (1 = newest)
DayOfPosition(groups, p) ==
    IF p <= Head(groups).n THEN Head(groups).day
    ELSE DayOfPosition(Tail(groups), p - Head(groups).n)

\* extractOrderDate of the order at position p
DateOfPosition(groups, p) == OrderInstant(DayOfPosition(groups, p))

\* results of /orders/search without a date filter at `offset`
SearchRecent(groups, offset, limit) ==
    IF offset >= SumN(groups) THEN <<>>
    ELSE <<offset + 1, Min(offset + limit, SumN(groups))>>

RECURSIVE ResultsLength(_)
\* results.length
ResultsLength(res) ==
    IF res = <<>> THEN 0 ELSE PageSize(Head(res)) + ResultsLength(Tail(res))

RemoveAt(res, i) == SubSeq(res, 1, i - 1) \o SubSeq(res, i + 1, Len(res))

RECURSIVE InsertRun(_, _)
\* results.push(...orders) of one page.  The order of the results is not
\* kept: they are a sequence of runs sorted by position, a run that adjoins
\* the page is joined with it, a run that overlaps it is kept beside it, so
\* that ResultsLength counts an order as often as it was pushed.
InsertRun(res, page) ==
    IF \E i \in 1..Len(res) : res[i][2] + 1 = page[1]
    THEN LET i == CHOOSE i \in 1..Len(res) : res[i][2] + 1 = page[1]
         IN InsertRun(RemoveAt(res, i), <<res[i][1], page[2]>>)
    ELSE IF \E i \in 1..Len(res) : page[2] + 1 = res[i][1]
    THEN LET i == CHOOSE i \in 1..Len(res) : page[2] + 1 = res[i][1]
         IN InsertRun(RemoveAt(res, i), <<page[1], res[i][2]>>)
    ELSE LET before == SelectSeq(res, LAMBDA r : r[1] < page[1]
                                              \/ (r[1] = page[1] /\ r[2] <= page[2]))
             after == SelectSeq(res, LAMBDA r : ~(r[1] < page[1]
                                                \/ (r[1] = page[1] /\ r[2] <= page[2])))
         IN before \o <<page>> \o after

RECURSIVE PushAll(_, _)
\* results.push(...orders) of several pages
PushAll(res, pages) ==
    IF pages = <<>> THEN res ELSE PushAll(InsertRun(res, Head(pages)), Tail(pages))

\* two runs overlap or adjoin
Touching(p, q) == p[1] <= q[2] + 1 /\ q[1] <= p[2] + 1

RECURSIVE Normalise(_)
\* a set of runs as the set of maximal runs covering the same positions
Normalise(S) ==
    IF \E p, q \in S : p # q /\ Touching(p, q)
    THEN LET pq == CHOOSE pq \in S \X S : pq[1] # pq[2] /\ Touching(pq[1], pq[2])
         IN Normalise((S \ {pq[1], pq[2]})
                        \cup {<<Min(pq[1][1], pq[2][1]), Max(pq[1][2], pq[2][2])>>})
    ELSE S

RECURSIVE CountRuns(_)
CountRuns(S) ==
    IF S = {} THEN 0 ELSE LET r == CHOOSE r \in S : TRUE
                          IN PageSize(r) + CountRuns(S \ {r})

\* the number of distinct orders among the results
DistinctOrders(res) == CountRuns(Normalise(Range(res)))

\* prisma.meliVenda.findFirst({ orderBy: { dataVenda: 'asc' } })?.dataVenda
OldestSyncedDate(store) ==
    IF store = {} THEN NoDate
    ELSE DateOfPosition(up, MaxOf({r[2] : r \in store}))

\* every upstream order is a row of the store
AllPersisted(store) == store = (IF SumN(up) = 0 THEN {} ELSE {<<1, SumN(up)>>})

RECURSIVE LandedPages(_)
\* the non-empty pages of the in-flight requests `landed`, by offset
LandedPages(landed) ==
    IF landed = {} THEN <<>>
    ELSE LET a == CHOOSE a \in landed : \A b \in landed : a.offset <= b.offset
             page == SearchRecent(up, a.offset, PageLimit)
         IN (IF page = <<>> THEN <<>> ELSE <<page>>) \o LandedPages(landed \ {a})

FetchIdle ==
    [pc |-> "idle", quickMode |-> TRUE, fullSync |-> FALSE, failing |-> {},
     failStatus |-> 503, authFailed |-> FALSE, requestedAfterAuth |-> FALSE,
     oldestSyncedDate |-> NoDate, total |-> 0, discoveredTotal |-> NoTotal,
     nextOffset |-> 0, maxOffsetToFetch |-> 0, active |-> {},
     oldestOrderDate |-> NoDate, results |-> <<>>, forcedStop |-> FALSE,
     searchStartDate |-> NoDate, currentMonthStart |-> NoDate, windows |-> <<>>,
     brk |-> FALSE]

RunIdle ==
    [pc |-> "idle", expected |-> 0, fetched |-> 0, saved |-> 0,
     forcedStop |-> FALSE, hasMoreToSync |-> FALSE, inflight |-> 0, missed |-> 0,
     startedComplete |-> FALSE]

RECURSIVE Schedule(_, _, _, _)
\* while (activePages.size < PAGE_FETCH_CONCURRENCY && nextOffset < limit)
\*   { schedulePageFetch(nextOffset); nextOffset += PAGE_LIMIT }
\* at elapsed time t; a page is in flight as [offset, due].
Schedule(active, nextOffset, limit, t) ==
    IF Cardinality(active) < PageFetchConcurrency /\ nextOffset < limit
    THEN Schedule(active \cup {[offset |-> nextOffset, due |-> Min(t + latency, ClockCap)]},
                  nextOffset + PageLimit, limit, t)
    ELSE [active |-> active, nextOffset |-> nextOffset]

\* The values of (quickMode, fullSync) the route derives from the body.
SyncModes == {<<TRUE, FALSE>>, <<FALSE, FALSE>>}

\* The recent pages (by offset) whose search fails in one run.
RecentFailures == SUBSET {0, PageLimit}

\* What fetchWithRetry hands back for them: 401 at once, or 503 after the
\* last retry.
PageFailureStatuses == {401, 503}

\* POST up to the first await of fetchAllOrdersForAccount's paging: the
\* watermark is read and the first pages are scheduled (lines 755-881).
SyncCall(mode, failing, status) ==
    /\ UNCHANGED <<retryVars, saveVars, envVars, runVars, pagingVars, queueVars, calcVars, enrichVars, workerVars, authVars>>
    /\ run.pc \in {"idle", "done"}
    /\ run.pc = "done" => mode = <<fa.quickMode, fa.fullSync>>
    /\ LET limit == Min(MaxOffset, SafeBatchSize)
           first == Schedule({}, 0, Min(MaxOffset, limit), 0)
       IN fa' = [FetchIdle EXCEPT !.pc = "recent",
                                  !.quickMode = mode[1],
                                  !.fullSync = mode[2],
                                  !.failing = failing,
                                  !.failStatus = status,
                                  !.oldestSyncedDate = OldestSyncedDate(vendas),
                                  !.maxOffsetToFetch = limit,
                                  !.active = first.active,
                                  !.nextOffset = first.nextOffset]
    /\ run' = [RunIdle EXCEPT !.pc = "fetching",
                               !.startedComplete = AllPersisted(vendas) /\ failing = {}]
    /\ now' = 0
    /\ late' = {}
    /\ faults' = 0
    /\ stack' = <<>>
    /\ UNCHANGED <<failed, vendas>>

\* await Promise.race(activePages) resumes with page `a` settled: the page's
\* callback (lines 810-854), the time check and the refill (lines 886-900).
SyncPageDone(offset) ==
    /\ UNCHANGED <<retryVars, saveVars, envVars, runVars, pagingVars, queueVars, calcVars, enrichVars, workerVars, authVars>>
    /\ fa.pc = "recent"
    /\ \E a \in fa.active : a.offset = offset /\ \A b \in fa.active : a.due <= b.due
    /\ LET a == CHOOSE a \in fa.active : a.offset = offset
           t == Max(now, a.due)
           ok == a.offset \notin fa.failing
           page == IF ok THEN SearchRecent(up, a.offset, PageLimit) ELSE <<>>
           discovers == ok /\ fa.discoveredTotal = NoTotal
           discoveredTotal == IF discovers THEN SumN(up) ELSE fa.discoveredTotal
           total == IF discovers THEN SumN(up) ELSE fa.total
           maxOffsetToFetch == IF discovers THEN Min(MaxOffset, SumN(up))
                               ELSE fa.maxOffsetToFetch
           results == IF page = <<>> THEN fa.results ELSE InsertRun(fa.results, page)
           oldest == IF page = <<>> THEN fa.oldestOrderDate
                     ELSE IF fa.oldestOrderDate = NoDate
                     THEN DateOfPosition(up, page[2])
                     ELSE Min(fa.oldestOrderDate, DateOfPosition(up, page[2]))
           rest == fa.active \ {a}
           authFailed == fa.authFailed \/ (~ok /\ IsAuthError(fa.failStatus))
           settled == [fa EXCEPT !.discoveredTotal = discoveredTotal,
                                 !.authFailed = authFailed,
                                 !.total = total,
                                 !.maxOffsetToFetch = maxOffsetToFetch,
                                 !.results = results,
                                 !.oldestOrderDate = oldest]
       IN /\ now' = t
          /\ failed' = (failed \/ ~ok)
          /\ IF t > MaxExecutionTime
             THEN \* forcedStop = true; break
                  /\ fa' = [settled EXCEPT !.active = rest, !.forcedStop = TRUE,
                                           !.pc = "after"]
                  /\ late' = late
             ELSE LET more == IF t < MaxExecutionTime
                              THEN Schedule(rest, fa.nextOffset, maxOffsetToFetch, t)
                              ELSE [active |-> rest, nextOffset |-> fa.nextOffset]
                  IN /\ fa' = [settled EXCEPT !.active = more.active,
                                              !.nextOffset = more.nextOffset,
                                              !.requestedAfterAuth =
                                                  @ \/ (authFailed /\ more.active # rest),
                                              !.pc = IF more.active = {} THEN "after"
                                                     ELSE "recent"]
                     /\ late' = IF more.active # rest
                                THEN StartedAt(t, "recentPage") ELSE late
    /\ UNCHANGED <<faults, stack, run, vendas>>

\* Lines 903-937 and 993-998: the decision on the historical phase.
SyncAfterRecent ==
    /\ UNCHANGED <<retryVars, saveVars, envVars, runVars, pagingVars, queueVars, calcVars, enrichVars, workerVars, authVars>>
    /\ fa.pc = "after"
    /\ LET length == ResultsLength(fa.results)
           total == IF fa.discoveredTotal = NoTotal THEN length ELSE fa.total
           timeRemaining == MaxExecutionTime - now
           reachedLimit == length >= SafeBatchSize
           shouldFetchHistory == ~reachedLimit /\ timeRemaining > 10000
           searchStartDate ==
               IF fa.oldestSyncedDate # NoDate THEN fa.oldestSyncedDate - Day
               ELSE IF fa.oldestOrderDate # NoDate THEN fa.oldestOrderDate
               ELSE Today
       IN fa' = IF shouldFetchHistory /\ (total > length \/ fa.oldestSyncedDate # NoDate)
                THEN [fa EXCEPT !.total = total, !.pc = "month", !.brk = FALSE,
                                !.searchStartDate = searchStartDate,
                                !.currentMonthStart =
                                    PrevMonthStart(MonthStartOf(searchStartDate))]
                ELSE IF ~shouldFetchHistory /\ total > length
                THEN [fa EXCEPT !.total = total, !.pc = "done",
                                !.forcedStop = @ \/ timeRemaining <= 10000]
                ELSE [fa EXCEPT !.total = total, !.pc = "done"]
    /\ UNCHANGED <<splitVars, run, vendas>>

\* The head of the month loop (line 944): the next month is handed to
\* fetchOrdersInDateRange, or the loop ends (lines 988-992).
SyncMonthLoop ==
    /\ UNCHANGED <<retryVars, saveVars, envVars, runVars, pagingVars, queueVars, calcVars, enrichVars, workerVars, authVars>>
    /\ fa.pc = "month"
    /\ IF /\ ~fa.brk
          /\ fa.currentMonthStart > StartDate(fa.fullSync)
          /\ now < MaxExecutionTime - 5000
       THEN /\ stack' = <<Frame(fa.currentMonthStart, MonthEnd(fa.currentMonthStart))>>
            /\ late' = StartedAt(now, "probe")
            /\ faults' = 0
            /\ fa' = [fa EXCEPT !.pc = "wait",
                                !.windows = Append(@, fa.currentMonthStart),
                                !.requestedAfterAuth = @ \/ fa.authFailed]
       ELSE /\ fa' = [fa EXCEPT !.pc = "done",
                                !.forcedStop =
                                    @ \/ (/\ now >= MaxExecutionTime - 5000
                                          /\ fa.currentMonthStart > StartDate(fa.fullSync))]
            /\ UNCHANGED <<stack, late, faults>>
    /\ UNCHANGED <<now, failed, run, vendas>>

\* fetchOrdersInDateRange has returned the month's orders (lines 963-985).
SyncMonthDone ==
    /\ UNCHANGED <<retryVars, saveVars, envVars, runVars, pagingVars, queueVars, calcVars, enrichVars, workerVars, authVars>>
    /\ fa.pc = "wait"
    /\ Len(stack) = 1
    /\ Top.pc = "ret"
    /\ fa' = IF Top.res = <<>>
             THEN [fa EXCEPT !.pc = "month", !.brk = TRUE]
             ELSE [fa EXCEPT !.pc = "month",
                             !.results = PushAll(@, Top.res),
                             !.currentMonthStart = PrevMonthStart(@)]
    /\ stack' = <<>>
    /\ UNCHANGED <<now, late, faults, failed, run, vendas>>

\* fetchAllOrdersForAccount returns and POST goes on (lines 1990-2147):
\* processAndSave adds to the totals and saves the batch, hasMoreToSync is
\* computed.  The pages still in flight after a forced stop push their
\* orders to the returned array before it is saved (lands) or too late:
\* nothing awaits them, inflight is how many are still out when the account
\* loop moves on, missed how many of those bring orders the batch, copied by
\* deduplicateOrders when saveVendasBatch was entered, does not hold.
SyncSave(ok, lands) ==
    /\ UNCHANGED <<retryVars, saveVars, envVars, runVars, pagingVars, queueVars, calcVars, enrichVars, workerVars, authVars>>
    /\ fa.pc = "done"
    /\ run.pc = "fetching"
    /\ lands => fa.active # {}
    /\ LET landed == IF lands THEN {a \in fa.active : a.offset \notin fa.failing} ELSE {}
           allOrders == PushAll(fa.results, LandedPages(landed))
           length == ResultsLength(allOrders)
           expectedTotal == Max(fa.total, ResultsLength(fa.results))
           effectiveExpected == IF expectedTotal # 0 THEN expectedTotal ELSE length
           stored == length > 0 /\ ok
           pendingVolume == length < effectiveExpected
       IN /\ vendas' = IF stored THEN Normalise(vendas \cup Range(allOrders)) ELSE vendas
          /\ failed' = (failed \/ (length > 0 /\ ~ok))
          /\ run' = [run EXCEPT !.pc = "done",
                                !.expected = effectiveExpected,
                                !.fetched = length,
                                !.saved = IF stored THEN DistinctOrders(allOrders) ELSE 0,
                                !.forcedStop = fa.forcedStop,
                                !.inflight = IF lands THEN 0
                                             ELSE Cardinality(fa.active),
                                !.missed =
                                    IF lands THEN 0
                                    ELSE Len(LandedPages(
                                             {a \in fa.active : a.offset \notin fa.failing})),
                                !.hasMoreToSync =
                                    fa.forcedStop
                                    \/ ((fa.fullSync \/ fa.quickMode) /\ pendingVolume)]
    /\ fa' = [fa EXCEPT !.pc = "idle", !.active = {}]
    /\ UNCHANGED <<now, late, faults, stack>>

InitSyncVars == fa = FetchIdle /\ run = RunIdle /\ vendas = {}

(***************************************************************************)
(*         The route handler: POST, its account loop and its end           *)
(***************************************************************************)

\* Bound: the other invocations of POST that reach their token refresh
\* while this one runs.
MaxPeers == 1

\* The numbers of orders an account's fetch reports, found or expected.
OrderCounts == {0, 1}

\* The accounts of the user, in the order of findMany (created_at desc).
UserAccounts == <<"a1", "a2">>

\* requestBody.accountIds: absent or empty, one account, an id of nobody.
AccountIdSets == {{}, {"a2"}, {"zz"}}

\* requestBody.quickMode / requestBody.fullSync as sent
FlagValues == {"undefined", "true", "false"}

Bodies == [accountIds : AccountIdSets, quickMode : FlagValues, fullSync : {"undefined", "true"}]

\* const quickMode = requestBody.quickMode !== false
QuickMode(body) == body.quickMode # "false"

\* const fullSync = requestBody.fullSync === true
FullSync(body) == body.fullSync = "true"

\* accountsWhere.id = { in: accountIds } when accountIds is not empty
AccountsInScope(body) ==
    IF body.accountIds = {} THEN UserAccounts
    ELSE SelectSeq(UserAccounts, LAMBDA a : a \in body.accountIds)

HasMoreToSyncUngated(forcedStop, quickMode, fullSync, pendingVolume) ==
    forcedStop \/ pendingVolume
\* const hasMoreToSync = forcedStop || ((fullSync || quickMode) && pendingVolume)
HasMoreToSync(forcedStop, quickMode, fullSync, pendingVolume) ==
    forcedStop \/ ((fullSync \/ quickMode) /\ pendingVolume)

FollowUpParsed(body) ==
    [accountIds |-> body.accountIds,
     quickMode |-> IF QuickMode(body) THEN "true" ELSE "false",
     fullSync |-> IF FullSync(body) THEN "true" ELSE "false"]
\* The body of the follow-up request (lines 2136-2140): accountIds,
\* quickMode and fullSync as the request body carried them.
FollowUp(body) ==
    [accountIds |-> body.accountIds, quickMode |-> body.quickMode,
     fullSync |-> body.fullSync]

HasRefreshNever(m, key) == FALSE
\* tokenRefreshMutex.has(mutexKey)
HasRefresh(m, key) == key \in DOMAIN m

\* tokenRefreshMutex.set(mutexKey, refreshPromise)
MutexSet(m, key, id) == [k \in DOMAIN m \cup {key} |-> IF k = key THEN id ELSE m[k]]

\* tokenRefreshMutex.delete(mutexKey)
MutexDelete(m, key) == [k \in DOMAIN m \ {key} |-> m[k]]

\* the promise a new call of smartRefreshMeliAccountToken returns
FreshId == CHOOSE i \in 1..(Cardinality(refreshes) + 1) : \A f \in refreshes : f.id # i

\* Lines 1784-1790: await the refresh in flight for the account, or start
\* one and register it.
Acquire(account) ==
    IF HasRefresh(tokenRefreshMutex, account)
    THEN [awaiting |-> tokenRefreshMutex[account], owner |-> FALSE,
          mutex |-> tokenRefreshMutex, refreshes |-> refreshes]
    ELSE [awaiting |-> FreshId, owner |-> TRUE,
          mutex |-> MutexSet(tokenRefreshMutex, account, FreshId),
          refreshes |-> refreshes \cup
                          {[id |-> FreshId, account |-> account, state |-> "pending"]}]

RefreshOf(id) == CHOOSE f \in refreshes : f.id = id

\* who awaits refresh id: the invocation itself (0) or a peer
Awaiters(id) ==
    (IF rq.pc = "await" /\ rq.awaiting = id THEN {0} ELSE {})
    \cup {p \in DOMAIN peers : peers[p].awaiting = id}

\* the invocation that started refresh id still awaits it
OwnerAwaits(id) ==
    \/ rq.pc = "await" /\ rq.awaiting = id /\ rq.owner
    \/ \E p \in DOMAIN peers : peers[p].awaiting = id /\ peers[p].owner

\* a settled promise nobody awaits any more is dropped
Forget(id, who) == IF Awaiters(id) \ {who} = {} THEN refreshes \ {RefreshOf(id)} ELSE refreshes

RefreshFailedStop(r, account) ==
    [r EXCEPT !.pc = "next", !.awaiting = 0,
              !.errors = Append(@, [accountId |-> account, message |-> "refresh"]),
              !.idx = Len(r.accounts) + 1]
\* The catch of lines 1801-1817: one entry in errors, then continue.
RefreshFailed(r, account) ==
    [r EXCEPT !.pc = "next", !.awaiting = 0,
              !.errors = Append(@, [accountId |-> account, message |-> "refresh"]),
              !.idx = @ + 1]

RequestIdle ==
    [pc |-> "idle", body |-> [accountIds |-> {}, quickMode |-> "undefined",
                              fullSync |-> "undefined"],
     accounts |-> <<>>, idx |-> 0, awaiting |-> 0, owner |-> FALSE,
     errors |-> <<>>, log |-> <<>>, refreshed |-> <<>>,
     totalExpectedOrders |-> 0, totalFetchedOrders |-> 0, forcedStop |-> FALSE,
     hasMoreToSync |-> FALSE, followUps |-> <<>>, closed |-> FALSE]

\* The peers at their await, kept in the order of what they await (the
\* starter of a refresh before its waiters): which peer is which is of no
\* consequence.
PeerKey(w) == 2 * w.awaiting + (IF w.owner THEN 0 ELSE 1)
PeerInsert(ps, w) ==
    LET k == Cardinality({i \in DOMAIN ps : PeerKey(ps[i]) <= PeerKey(w)})
    IN SubSeq(ps, 1, k) \o <<w>> \o SubSeq(ps, k + 1, Len(ps))

\* What fetchAllOrdersForAccount hands back for one account, or that it
\* throws (the store query of line 771 or 1008 fails).
FetchOutcomes ==
    {[kind |-> "ok", fetched |-> f, expectedTotal |-> e, forcedStop |-> s] :
        f \in OrderCounts, e \in OrderCounts, s \in BOOLEAN}
    \cup {[kind |-> "throws", fetched |-> 0, expectedTotal |-> 0, forcedStop |-> FALSE]}

\* POST is invoked: the body is read and the accounts are loaded (lines
\* 1626-1753); with no account it answers at once (lines 1718-1735).
RunStart(body) ==
    /\ UNCHANGED <<retryVars, saveVars, envVars, splitVars, syncVars, pagingVars, queueVars, calcVars, enrichVars, workerVars, authVars>>
    /\ rq.pc \in {"idle", "done"}
    /\ rq' = [RequestIdle EXCEPT !.body = body,
                                 !.accounts = AccountsInScope(body),
                                 !.idx = 1,
                                 !.pc = IF AccountsInScope(body) = <<>> THEN "done"
                                        ELSE "next"]
    /\ UNCHANGED <<peers, tokenRefreshMutex, refreshes>>

\* The head of the account loop up to the await of the refresh (lines
\* 1755-1793), or the end of the run after the last account (2082-2147):
\* the follow-up request is sent and the handler answers in the same step,
\* it has no await on the follow-up; otherwise the closing of the channels
\* is scheduled.
RunNext ==
    /\ UNCHANGED <<retryVars, saveVars, envVars, splitVars, syncVars, pagingVars, queueVars, calcVars, enrichVars, workerVars, authVars>>
    /\ rq.pc = "next"
    /\ IF rq.idx <= Len(rq.accounts)
       THEN LET got == Acquire(rq.accounts[rq.idx])
            IN /\ rq' = [rq EXCEPT !.pc = "await", !.awaiting = got.awaiting,
                                   !.owner = got.owner]
               /\ tokenRefreshMutex' = got.mutex
               /\ refreshes' = got.refreshes
       ELSE LET pendingVolume == rq.totalFetchedOrders < rq.totalExpectedOrders
                hasMoreToSync == HasMoreToSync(rq.forcedStop, QuickMode(rq.body),
                                               FullSync(rq.body), pendingVolume)
            IN /\ rq' = [rq EXCEPT !.pc = "done",
                                   !.hasMoreToSync = hasMoreToSync,
                                   !.followUps = IF hasMoreToSync
                                                 THEN Append(@, FollowUp(rq.body)) ELSE @,
                                   !.closed = ~hasMoreToSync]
               /\ UNCHANGED <<tokenRefreshMutex, refreshes>>
    /\ UNCHANGED peers

\* smartRefreshMeliAccountToken settles: the account with its new token, or
\* the failure of the last attempt (part_001, lines 96-108).
RefreshSettle(id, ok) ==
    /\ UNCHANGED <<retryVars, saveVars, envVars, splitVars, syncVars, pagingVars, queueVars, calcVars, enrichVars, workerVars, authVars>>
    /\ \E f \in refreshes : f.id = id /\ f.state = "pending"
    /\ refreshes' = (refreshes \ {RefreshOf(id)})
                      \cup {[RefreshOf(id) EXCEPT !.state = IF ok THEN "ok" ELSE "failed"]}
    /\ UNCHANGED <<rq, peers, tokenRefreshMutex>>

\* The await of the refresh resumes (lines 1786, 1793-1817): the invocation
\* that started it deletes the mutex entry; on failure the account gets an
\* entry in errors and the loop continues with the next account.  The
\* continuation of the starter runs before those of the waiters.
RunRefreshDone ==
    /\ UNCHANGED <<retryVars, saveVars, envVars, splitVars, syncVars, pagingVars, queueVars, calcVars, enrichVars, workerVars, authVars>>
    /\ rq.pc = "await"
    /\ RefreshOf(rq.awaiting).state # "pending"
    /\ rq.owner \/ ~OwnerAwaits(rq.awaiting)
    /\ LET account == rq.accounts[rq.idx]
       IN /\ tokenRefreshMutex' = IF rq.owner THEN MutexDelete(tokenRefreshMutex, account)
                                  ELSE tokenRefreshMutex
          /\ rq' = IF RefreshOf(rq.awaiting).state = "ok"
                   THEN [rq EXCEPT !.pc = "fetch", !.awaiting = 0,
                                   !.refreshed = Append(@, account)]
                   ELSE RefreshFailed(rq, account)
    /\ refreshes' = Forget(rq.awaiting, 0)
    /\ UNCHANGED peers

\* fetchAllOrdersForAccount and processAndSave for the account (lines
\* 1819-2064): the totals grow by what was fetched, or the account gets an
\* entry in errors.
RunFetch(outcome) ==
    /\ UNCHANGED <<retryVars, saveVars, envVars, splitVars, syncVars, pagingVars, queueVars, calcVars, enrichVars, workerVars, authVars>>
    /\ rq.pc = "fetch"
    /\ LET account == rq.accounts[rq.idx]
           effectiveExpected == IF outcome.expectedTotal # 0 THEN outcome.expectedTotal
                                ELSE outcome.fetched
       IN rq' = IF outcome.kind = "ok"
                THEN [rq EXCEPT !.pc = "next", !.idx = @ + 1,
                                !.log = Append(@, [account |-> account,
                                                   fetched |-> outcome.fetched,
                                                   expected |-> effectiveExpected,
                                                   forcedStop |-> outcome.forcedStop]),
                                !.totalExpectedOrders = @ + effectiveExpected,
                                !.totalFetchedOrders = @ + outcome.fetched,
                                !.forcedStop = @ \/ outcome.forcedStop]
                ELSE [rq EXCEPT !.pc = "next", !.idx = @ + 1,
                                !.errors = Append(@, [accountId |-> account,
                                                      message |-> "fetch"])]
    /\ UNCHANGED <<peers, tokenRefreshMutex, refreshes>>

\* Another invocation of POST reaches lines 1784-1790 for an account.
PeerAcquire(account) ==
    /\ UNCHANGED <<retryVars, saveVars, envVars, splitVars, syncVars, pagingVars, queueVars, calcVars, enrichVars, workerVars, authVars>>
    /\ Len(peers) < MaxPeers
    /\ LET got == Acquire(account)
       IN /\ peers' = PeerInsert(peers, [account |-> account,
                                         awaiting |-> got.awaiting,
                                         owner |-> got.owner])
          /\ tokenRefreshMutex' = got.mutex
          /\ refreshes' = got.refreshes
    /\ UNCHANGED rq

\* Its await resumes (lines 1786, 1793-1799) and it goes on with its run.
PeerRefreshDone(p) ==
    /\ UNCHANGED <<retryVars, saveVars, envVars, splitVars, syncVars, pagingVars, queueVars, calcVars, enrichVars, workerVars, authVars>>
    /\ p \in DOMAIN peers
    /\ RefreshOf(peers[p].awaiting).state # "pending"
    /\ peers[p].owner \/ ~OwnerAwaits(peers[p].awaiting)
    /\ tokenRefreshMutex' = IF peers[p].owner
                            THEN MutexDelete(tokenRefreshMutex, peers[p].account)
                            ELSE tokenRefreshMutex
    /\ refreshes' = Forget(peers[p].awaiting, p)
    /\ peers' = RemoveAt(peers, p)
    /\ UNCHANGED rq

InitRunVars ==
    /\ rq = RequestIdle
    /\ peers = <<>>
    /\ tokenRefreshMutex = <<>>
    /\ refreshes = {}

(***************************************************************************)
(*     PAGE_FETCH_CONCURRENCY and the window of recent pages in flight     *)
(***************************************************************************)

\* Numbers are counted in halves here (2 is 4, 2.5 is 5): the configuration
\* variable may hold a fraction.
Halves(n) == 2 * n

\* Number(...) of a text that is no number
NaN == 0 - 999999

\* process.env.MELI_PAGE_FETCH_CONCURRENCY: not set, or one of these texts.
EnvValues == {"unset", "", "abc", "0", "1", "2", "4", "5", "9", "-3", "0.5", "1.5", "2.5"}

\* Number(text), in halves
NumberOf(text) ==
    CASE text = "" -> 0
      [] text = "abc" -> NaN
      [] text = "0" -> 0
      [] text = "1" -> Halves(1)
      [] text = "2" -> Halves(2)
      [] text = "4" -> Halves(4)
      [] text = "5" -> Halves(5)
      [] text = "9" -> Halves(9)
      [] text = "-3" -> 0 - Halves(3)
      [] text = "0.5" -> 1
      [] text = "1.5" -> 3
      [] text = "2.5" -> 5

\* Math.min(5, Math.max(1, Number(env ?? "2") || 2)), in halves
PageFetchConcurrencyFor(env) ==
    LET n == NumberOf(IF env = "unset" THEN "2" ELSE env)
        orTwo == IF n = NaN \/ n = 0 THEN Halves(2) ELSE n
    IN Min(Halves(5), Max(Halves(1), orTwo))

\* Bound: the account holds up to MaxPages pages of orders.
MaxPages == 6

\* paging.total of the account
PagingTotals == {0, 120, MaxPages * PageLimit}

\* Date.now() - startTime at a resumption of the paging loop
ElapsedValues == {0, MaxExecutionTime, MaxExecutionTime + 1}

PagingIdle ==
    [pc |-> "idle", env |-> "unset", concurrency |-> Halves(2), total |-> 0,
     size |-> 0, nextOffset |-> 0, maxOffsetToFetch |-> 0, discovered |-> FALSE,
     elapsed |-> 0]

RECURSIVE Refill(_, _, _, _)
\* while (activePages.size < PAGE_FETCH_CONCURRENCY && nextOffset < limit)
\*   { schedulePageFetch(nextOffset); nextOffset += PAGE_LIMIT }
Refill(size, nextOffset, limit, concurrency) ==
    IF Halves(size) < concurrency /\ nextOffset < limit
    THEN Refill(size + 1, nextOffset + PageLimit, limit, concurrency)
    ELSE [size |-> size, nextOffset |-> nextOffset]

\* The module is loaded with the variable set to env and the recent paging
\* of an account starts (lines 77-80, 784-881).
PagingStart(env, total) ==
    /\ UNCHANGED <<retryVars, saveVars, envVars, splitVars, syncVars, runVars, queueVars, calcVars, enrichVars, workerVars, authVars>>
    /\ pf.pc \in {"idle", "done"}
    /\ LET limit == Min(MaxOffset, SafeBatchSize)
           first == Refill(0, 0, Min(MaxOffset, limit), PageFetchConcurrencyFor(env))
       IN pf' = [PagingIdle EXCEPT !.pc = "paging", !.env = env,
                                   !.concurrency = PageFetchConcurrencyFor(env),
                                   !.total = total,
                                   !.maxOffsetToFetch = limit,
                                   !.size = first.size,
                                   !.nextOffset = first.nextOffset]

\* await Promise.race(activePages) resumes at elapsed time t with one page
\* settled (lines 883-901): the time check, then the refill.
PagingPageDone(ok, t) ==
    /\ UNCHANGED <<retryVars, saveVars, envVars, splitVars, syncVars, runVars, queueVars, calcVars, enrichVars, workerVars, authVars>>
    /\ pf.pc = "paging"
    /\ pf.size > 0
    /\ t >= pf.elapsed
    /\ LET discovers == ok /\ ~pf.discovered
           maxOffsetToFetch == IF discovers THEN Min(MaxOffset, pf.total)
                               ELSE pf.maxOffsetToFetch
           more == IF t < MaxExecutionTime
                   THEN Refill(pf.size - 1, pf.nextOffset, maxOffsetToFetch, pf.concurrency)
                   ELSE [size |-> pf.size - 1, nextOffset |-> pf.nextOffset]
       IN pf' = IF t > MaxExecutionTime
                THEN [pf EXCEPT !.pc = "done", !.size = @ - 1, !.elapsed = t,
                                !.discovered = @ \/ discovers,
                                !.maxOffsetToFetch = maxOffsetToFetch]
                ELSE [pf EXCEPT !.pc = IF more.size = 0 THEN "done" ELSE "paging",
                                !.size = more.size,
                                !.nextOffset = more.nextOffset,
                                !.elapsed = t,
                                !.discovered = @ \/ discovers,
                                !.maxOffsetToFetch = maxOffsetToFetch]

InitPagingVars == pf = PagingIdle

(***************************************************************************)
(*        The buffer between fetching and saving: redis-queue.ts           *)
(***************************************************************************)

\* Bound: Date.now() takes the values 1..MaxClock.
MaxClock == 2

\* Bound: the sales handed to enqueueSales over a run.
MaxSales == 2

\* Bound: store commands that throw over a run.
MaxStoreFaults == 1

\* The accounts of the user whose queue is modelled; their ids sort as
\* texts in this order.
QueueAccounts == {"a", "b"}

AccountRank(accountId) == IF accountId = "a" THEN 1 ELSE 2

\* `${QUEUE_PREFIX}:${userId}:${accountId}:${ts}`: what differs between the
\* keys of one user is the account id, then the timestamp (timestamps in
\* milliseconds all have 13 digits, so they sort as texts as they do as
\* numbers).
GetQueueKey(accountId, timestamp) == [account |-> accountId, ts |-> timestamp]

\* the order of queueKeys.sort(): the texts of the keys are compared
KeyBefore(k1, k2) ==
    \/ AccountRank(k1.account) < AccountRank(k2.account)
    \/ k1.account = k2.account /\ k1.ts < k2.ts

\* sortedKeys[0]
FirstKey(queueKeys) ==
    CHOOSE k \in queueKeys : \A other \in queueKeys \ {k} : KeyBefore(k, other)

NoKey == [account |-> "none", ts |-> 0]

\* client.setex(key, ttl, data)
Setex(kv, key, data) == [k \in DOMAIN kv \cup {key} |-> IF k = key THEN data ELSE kv[k]]

\* client.del(key)
Del(kv, key) == [k \in DOMAIN kv \ {key} |-> kv[k]]

DegradesOnlyWithoutClient(client, available) == ~client
\* if (!client || !isRedisAvailable) return fallback()
Degrades(client, available) == ~client \/ ~available

\* the outcome of the last operation on the buffer, with what it found
\* (the client, the flag) and whether a store command threw
NoResult ==
    [op |-> "none", client |-> TRUE, available |-> TRUE, threw |-> FALSE,
     success |-> FALSE, key |-> NoKey, count |-> 0, sales |-> <<>>, given |-> 0,
     limit |-> 0, before |-> <<>>, oldest |-> 0]

QueueIdle ==
    [client |-> TRUE, byUrl |-> FALSE, isRedisAvailable |-> TRUE, kv |-> <<>>, index |-> {},
     clock |-> 1, next |-> 0, faults |-> 0, accepted |-> {}, served |-> {},
     last |-> NoResult]

\* the sales next + 1 .. next + n, in order
Sales(next, n) == [i \in 1..n |-> next + i]

Items(data) == {data[i] : i \in DOMAIN data}

Stored(kv) == UNION {Items(kv[k]) : k \in DOMAIN kv}

\* enqueueSales(userId, accountId, sales) with n sales; the store command
\* number failAt throws (0: none does).
EnqueueSales(accountId, n, failAt) ==
    /\ UNCHANGED <<retryVars, saveVars, envVars, splitVars, syncVars, runVars, pagingVars, calcVars, enrichVars, workerVars, authVars>>
    /\ rd.next + n <= MaxSales
    /\ failAt # 0 => rd.faults < MaxStoreFaults
    /\ LET sales == Sales(rd.next, n)
           queueKey == GetQueueKey(accountId, rd.clock)
           down == Degrades(rd.client, rd.isRedisAvailable)
           threw == ~down /\ failAt # 0
           kv1 == IF failAt = 1 THEN rd.kv ELSE Setex(rd.kv, queueKey, sales)
           index1 == IF failAt \in {1, 2} THEN rd.index ELSE rd.index \cup {queueKey}
           res == [NoResult EXCEPT !.op = "enqueue", !.given = n,
                                   !.client = rd.client,
                                   !.available = rd.isRedisAvailable]
       IN IF n = 0
          THEN \* if (sales.length === 0) return { success: true, key: null, count: 0 }
               /\ failAt = 0
               /\ rd' = [rd EXCEPT !.last = [res EXCEPT !.success = TRUE]]
          ELSE IF down
          THEN /\ failAt = 0
               /\ rd' = [rd EXCEPT !.next = @ + n, !.last = res]
          ELSE IF threw
          THEN \* catch: isRedisAvailable = false; return fallback()
               rd' = [rd EXCEPT !.next = @ + n, !.kv = kv1, !.index = index1,
                                !.isRedisAvailable = FALSE, !.faults = @ + 1,
                                !.last = [res EXCEPT !.threw = TRUE]]
          ELSE rd' = [rd EXCEPT !.next = @ + n, !.kv = kv1, !.index = index1,
                                !.accepted = @ \cup Items(sales),
                                !.last = [res EXCEPT !.success = TRUE, !.key = queueKey,
                                                     !.count = n]]

\* dequeueSales(userId, limit) on the buffer; the store command number
\* failAt throws (0: none does).
Dequeue(limit, failAt) ==
    /\ failAt # 0 => rd.faults < MaxStoreFaults
    /\ LET down == Degrades(rd.client, rd.isRedisAvailable)
           queueKeys == rd.index
           res == [NoResult EXCEPT !.op = "dequeue", !.limit = limit,
                                   !.client = rd.client,
                                   !.available = rd.isRedisAvailable]
           thrown(kv, index) ==
               [rd EXCEPT !.kv = kv, !.index = index, !.isRedisAvailable = FALSE,
                          !.faults = @ + 1, !.last = [res EXCEPT !.threw = TRUE]]
       IN IF down
          THEN /\ failAt = 0
               /\ rd' = [rd EXCEPT !.last = res]
          ELSE IF failAt = 1
          THEN rd' = thrown(rd.kv, rd.index)
          ELSE IF queueKeys = {}
          THEN /\ failAt = 0
               /\ rd' = [rd EXCEPT !.last = res]
          ELSE IF failAt = 2
          THEN rd' = thrown(rd.kv, rd.index)
          ELSE LET queueKey == FirstKey(queueKeys)
                   held == {k \in queueKeys : k \in DOMAIN rd.kv}
                   oldest == IF held = {} THEN 0
                             ELSE CHOOSE t \in {k.ts : k \in held} :
                                      \A k \in held : t <= k.ts
               IN IF queueKey \notin DOMAIN rd.kv
                  THEN \* if (!data): srem, return empty
                       /\ failAt \in {0, 3}
                       /\ rd' = IF failAt = 3 THEN thrown(rd.kv, rd.index)
                                ELSE [rd EXCEPT !.index = @ \ {queueKey}, !.last = res]
                  ELSE LET allSales == rd.kv[queueKey]
                           seen == [res EXCEPT !.before = allSales, !.oldest = oldest]
                       IN IF Len(allSales) <= limit
                          THEN \* del, srem
                               rd' = IF failAt = 3 THEN thrown(rd.kv, rd.index)
                                     ELSE IF failAt = 4
                                     THEN thrown(Del(rd.kv, queueKey), rd.index)
                                     ELSE [rd EXCEPT
                                             !.kv = Del(@, queueKey),
                                             !.index = @ \ {queueKey},
                                             !.served = @ \cup Items(allSales),
                                             !.last = [seen EXCEPT !.key = queueKey,
                                                                   !.sales = allSales]]
                          ELSE \* slice, ttl, setex with the remaining sales
                               LET batch == SubSeq(allSales, 1, limit)
                                   remaining == SubSeq(allSales, limit + 1, Len(allSales))
                               IN rd' = IF failAt \in {3, 4} THEN thrown(rd.kv, rd.index)
                                        ELSE [rd EXCEPT
                                                !.kv = Setex(@, queueKey, remaining),
                                                !.served = @ \cup Items(batch),
                                                !.last = [seen EXCEPT !.key = queueKey,
                                                                      !.sales = batch]]

\* dequeueSales called on its own
DequeueSales(limit, failAt) ==
    /\ UNCHANGED <<retryVars, saveVars, envVars, splitVars, syncVars, runVars, pagingVars, calcVars, enrichVars, workerVars, authVars>>
    /\ Dequeue(limit, failAt)

\* Date.now() moves on by a millisecond.
QueueTick ==
    /\ UNCHANGED <<retryVars, saveVars, envVars, splitVars, syncVars, runVars, pagingVars, calcVars, enrichVars, workerVars, authVars>>
    /\ rd.clock < MaxClock
    /\ rd' = [rd EXCEPT !.clock = @ + 1]

\* The client's 'connect' / 'ready' and 'error' / 'close' events (lines
\* 78-96) set and clear the flag.  initRedis registers the handlers on the
\* client it builds from host and port only: with REDIS_URL it returns the
\* client before them (61-73).
ClientEvent(up2) ==
    /\ UNCHANGED <<retryVars, saveVars, envVars, splitVars, syncVars, runVars, pagingVars, calcVars, enrichVars, workerVars, authVars>>
    /\ rd.client
    /\ ~rd.byUrl
    /\ rd.isRedisAvailable # up2
    /\ rd' = [rd EXCEPT !.isRedisAvailable = up2]

\* getRedisClient returns null with REDIS_ENABLED = 'false'.
InitQueueVars == \E enabled \in BOOLEAN : rd = [QueueIdle EXCEPT !.client = enabled]

\* The client is built from REDIS_URL when it is set, else from host and
\* port.
InitQueueConfigs ==
    \E enabled, byUrl \in BOOLEAN : rd = [QueueIdle EXCEPT !.client = enabled, !.byUrl = byUrl]

\* ---------------------------------------------------------------------
\* Money helpers, the freight rule and the contribution margin
\* (src/lib/frete.ts, the sync route and the background worker)
\* ---------------------------------------------------------------------

\* Amounts are counted in thousandths of the currency unit (7.00 is 7000,
\* 0.005 is 5), so that rounding to two decimals has something to round.
Units(n) == 1000 * n

\* null or undefined where a number is expected
Null == 0 - 888888

\* a text field that is absent or not a string
NoText == "<none>"

\* null where an object is expected
NoObject == [absent |-> TRUE]

\* obj.name where a number is expected / where a text is expected
Field(obj, name) == IF name \in DOMAIN obj THEN obj[name] ELSE Null

TextField(obj, name) == IF name \in DOMAIN obj THEN obj[name] ELSE NoText

\* obj.name where an object is expected: typeof ... === "object" ? ... ?? {} : {}
ObjectField(obj, name) == IF name \in DOMAIN obj THEN obj[name] ELSE NoObject

\* toFiniteNumber: a finite number passes, everything else is null
toFiniteNumber(value) == IF value \in {Null, NaN} THEN Null ELSE value

\* roundCurrency: Math.round((v + EPSILON) * 100) / 100, halves go up
roundCurrency(v) == ((v + 5) \div 10) * 10

\* roundCurrency(total / quantity) for a positive quantity
RoundedQuotient(total, quantity) ==
    ((2 * total + 10 * quantity) \div (20 * quantity)) * 10

\* the freight rule with the second preference of every type put first
calcularFreteAdjustSwapped(p) ==
    IF /\ p.shipment_logistic_type \in {"fulfillment", "cross_docking", "xd_drop_off"}
       /\ p.shipment_list_cost # Null
    THEN 0 - p.shipment_list_cost
    ELSE IF /\ p.shipment_logistic_type \in {"fulfillment", "cross_docking", "xd_drop_off"}
            /\ p.base_cost # Null
    THEN 0 - p.base_cost
    ELSE IF p.shipment_logistic_type = "self_service" /\ p.shipment_cost # Null
    THEN 0 - p.shipment_cost
    ELSE IF p.shipment_logistic_type = "self_service" /\ p.shipping_option_cost # Null
    THEN 0 - p.shipping_option_cost
    ELSE IF p.shipment_logistic_type = "drop_off" /\ p.shipment_list_cost # Null
    THEN 0 - p.shipment_list_cost
    ELSE IF p.shipment_logistic_type = "drop_off" /\ p.base_cost # Null
    THEN 0 - p.base_cost
    ELSE IF p.order_cost # Null
    THEN 0 - p.order_cost
    ELSE 0

\* calcularFreteAdjust: the chain of tests of the source, top to bottom
calcularFreteAdjust(p) ==
    IF /\ p.shipment_logistic_type \in {"fulfillment", "cross_docking", "xd_drop_off"}
       /\ p.base_cost # Null
    THEN 0 - p.base_cost
    ELSE IF /\ p.shipment_logistic_type \in {"fulfillment", "cross_docking", "xd_drop_off"}
            /\ p.shipment_list_cost # Null
    THEN 0 - p.shipment_list_cost
    ELSE IF p.shipment_logistic_type = "self_service" /\ p.shipping_option_cost # Null
    THEN 0 - p.shipping_option_cost
    ELSE IF p.shipment_logistic_type = "self_service" /\ p.shipment_cost # Null
    THEN 0 - p.shipment_cost
    ELSE IF p.shipment_logistic_type = "drop_off" /\ p.base_cost # Null
    THEN 0 - p.base_cost
    ELSE IF p.shipment_logistic_type = "drop_off" /\ p.shipment_list_cost # Null
    THEN 0 - p.shipment_list_cost
    ELSE IF p.order_cost # Null
    THEN 0 - p.order_cost
    ELSE 0

\* the magnitude the rule's caller discards
Sentinel == Units(999)

Abs(v) == IF v < 0 THEN 0 - v ELSE v

\* the label of a logistic type in the adjustment
AdjustmentLabel(logisticType) ==
    CASE logisticType = "self_service" -> "FLEX"
      [] logisticType = "drop_off" -> "Correios"
      [] logisticType = "xd_drop_off" -> "Agência"
      [] logisticType = "fulfillment" -> "FULL"
      [] logisticType = "cross_docking" -> "Coleta"
      [] OTHER -> logisticType

\* the order-level cost calculateFreightAdjustment hands to the rule
OrderCostOf(unitPrice, quantity) ==
    IF unitPrice # Null /\ quantity \notin {Null, 0} THEN unitPrice * quantity ELSE Null

\* calculateFreightAdjustment
calculateFreightAdjustment(logisticType, unitPrice, quantity, baseCost, listCost, shippingOptionCost, shipmentCost) ==
    IF logisticType \in {NoText, ""}
    THEN [adjustedCost |-> Null, adjustmentSource |-> NoText]
    ELSE LET freteAdjust == calcularFreteAdjust(
                 [shipment_logistic_type |-> logisticType,
                  base_cost |-> baseCost,
                  shipment_list_cost |-> listCost,
                  shipping_option_cost |-> shippingOptionCost,
                  shipment_cost |-> shipmentCost,
                  order_cost |-> OrderCostOf(unitPrice, quantity),
                  quantity |-> IF quantity = Null THEN 0 ELSE quantity])
         IN  IF Abs(freteAdjust) = Sentinel
             THEN [adjustedCost |-> Null, adjustmentSource |-> NoText]
             ELSE [adjustedCost |-> roundCurrency(freteAdjust),
                   adjustmentSource |-> AdjustmentLabel(logisticType)]

\* sumOrderQuantities: the sum of the quantities that are numbers, null when
\* no item has one
RECURSIVE SumCounted(_)
SumCounted(items) ==
    IF items = <<>> THEN 0
    ELSE (IF toFiniteNumber(Head(items)) = Null THEN 0 ELSE Head(items))
         + SumCounted(Tail(items))

sumOrderQuantities(items) ==
    IF \E i \in 1..Len(items) : toFiniteNumber(items[i]) # Null
    THEN SumCounted(items)
    ELSE Null

\* convertLogisticTypeName
convertLogisticTypeName(logisticType) ==
    CASE logisticType = "xd_drop_off" -> "Agência"
      [] logisticType = "self_service" -> "FLEX"
      [] logisticType = "cross_docking" -> "Coleta"
      [] OTHER -> logisticType

\* calculateFreight(order, shipment): an order is [id, shipping, total_amount,
\* order_items (the quantities of its items)], a shipment is an object with
\* logistic_type, base_cost, cost and shipping_option [cost, list_cost], or
\* no object at all.
calculateFreight(order, shipment) ==
    LET orderShipping == ObjectField(order, "shipping")
        shippingMode == TextField(orderShipping, "mode")
        logisticTypeRaw == TextField(shipment, "logistic_type")
        logisticType == IF logisticTypeRaw # NoText THEN logisticTypeRaw ELSE shippingMode
        logisticTypeSource ==
            IF logisticTypeRaw \notin {NoText, ""} THEN "shipment"
            ELSE IF shippingMode \notin {NoText, ""} THEN "order" ELSE NoText
        shipOpt == ObjectField(shipment, "shipping_option")
        baseCost == toFiniteNumber(Field(shipment, "base_cost"))
        optCost == toFiniteNumber(Field(shipOpt, "cost"))
        listCost == toFiniteNumber(Field(shipOpt, "list_cost"))
        shipCost == toFiniteNumber(Field(shipment, "cost"))
        orderCost == toFiniteNumber(Field(orderShipping, "cost"))
        charged == IF optCost # Null THEN <<optCost, "shipping_option">>
                   ELSE IF shipCost # Null THEN <<shipCost, "shipment">>
                   ELSE IF orderCost # Null THEN <<orderCost, "order">>
                   ELSE <<Null, NoText>>
        chargedCost == IF charged[1] # Null THEN roundCurrency(charged[1]) ELSE Null
        totalAmount == toFiniteNumber(Field(order, "total_amount"))
        items == order.order_items
        summed == sumOrderQuantities(items)
        quantity == IF summed # Null THEN summed
                    ELSE IF Len(items) > 0 THEN Len(items)
                    ELSE IF totalAmount # Null THEN 1 ELSE Null
        unitPrice == IF totalAmount # Null /\ quantity # Null /\ quantity > 0
                     THEN RoundedQuotient(totalAmount, quantity)
                     ELSE IF totalAmount # Null THEN roundCurrency(totalAmount) ELSE Null
        adjustment == calculateFreightAdjustment(logisticType, unitPrice, quantity,
                                                 baseCost, listCost, optCost, shipCost)
    IN  [logisticType |-> convertLogisticTypeName(logisticType),
         logisticTypeSource |-> logisticTypeSource,
         shippingMode |-> shippingMode,
         baseCost |-> baseCost,
         listCost |-> listCost,
         shippingOptionCost |-> IF optCost # Null THEN roundCurrency(optCost) ELSE Null,
         shipmentCost |-> IF shipCost # Null THEN roundCurrency(shipCost) ELSE Null,
         orderCostFallback |-> IF orderCost # Null THEN roundCurrency(orderCost) ELSE Null,
         chargedCost |-> chargedCost,
         chargedCostSource |-> charged[2],
         totalAmount |-> totalAmount,
         quantity |-> quantity,
         unitPrice |-> unitPrice,
         adjustedCost |-> adjustment.adjustedCost,
         adjustmentSource |-> adjustment.adjustmentSource]

\* taxaPlataforma || 0
OrZero(v) == IF v \in {Null, NaN, 0} THEN 0 ELSE v

\* the worker's copy with the cost of goods subtracted whenever it is given
calculateMargemContribuicaoAnyCmv(valorTotal, taxaPlataforma, frete, cmv) ==
    LET taxa == OrZero(taxaPlataforma)
    IN  IF cmv \notin {Null, NaN}
        THEN [valor |-> roundCurrency(valorTotal + taxa + frete - cmv),
              isMargemReal |-> TRUE]
        ELSE [valor |-> roundCurrency(valorTotal + taxa + frete), isMargemReal |-> FALSE]

\* calculateMargemContribuicao of the background worker
calculateMargemContribuicaoWorker(valorTotal, taxaPlataforma, frete, cmv) ==
    LET taxa == OrZero(taxaPlataforma)
    IN  IF cmv \notin {Null, NaN} /\ cmv > 0
        THEN [valor |-> roundCurrency(valorTotal + taxa + frete - cmv),
              isMargemReal |-> TRUE]
        ELSE [valor |-> roundCurrency(valorTotal + taxa + frete), isMargemReal |-> FALSE]

\* calculateMargemContribuicao of the sync route
calculateMargemContribuicao(valorTotal, taxaPlataforma, frete, cmv) ==
    LET taxa == OrZero(taxaPlataforma)
    IN  IF cmv \notin {Null, NaN} /\ cmv > 0
        THEN [valor |-> roundCurrency(valorTotal + taxa + frete - cmv),
              isMargemReal |-> TRUE]
        ELSE [valor |-> roundCurrency(valorTotal + taxa + frete), isMargemReal |-> FALSE]

\* The inputs the calculations are run on.
LogisticTypes ==
    {"fulfillment", "cross_docking", "xd_drop_off", "self_service", "drop_off",
     "unknown_type"}

FreteParams ==
    [shipment_logistic_type : LogisticTypes,
     base_cost : {Null, 0, Units(10)},
     shipment_list_cost : {Null, Units(12)},
     shipping_option_cost : {Null, Units(7)},
     shipment_cost : {Null, Units(9)},
     order_cost : {Null, Units(25)},
     quantity : {1}]

ShippingBlocks ==
    {NoObject} \cup [mode : {NoText, "me2"}, cost : {Null, Units(25)}]

CalcOrders ==
    [id : {1},
     shipping : ShippingBlocks,
     total_amount : {Null, Units(100), Units(999)},
     order_items : {<<>>, <<Null>>, <<1>>, <<1, 2>>}]

ShippingOptions == {NoObject, [cost |-> Units(7), list_cost |-> Units(12)],
                    [cost |-> Null, list_cost |-> Units(12)]}

CalcShipments ==
    {NoObject} \cup
    [logistic_type : {NoText, "", "fulfillment", "self_service", "unknown_type"},
     base_cost : {Null, Units(10)},
     cost : {Null, Units(9)},
     shipping_option : ShippingOptions]

MargemTotals == {Units(100), Units(100) + 5}
MargemTaxas == {Null, NaN, 0, 0 - Units(10), 0 - (Units(10) + 4)}
MargemFretes == {0, 0 - Units(8), Units(3)}
MargemCmvs == {Null, NaN, 0, 0 - Units(5), Units(30), Units(30) + 5}

CalcIdle == [fn |-> "none", done |-> TRUE]

\* the calls under study, before they are made
CalcCalls ==
    {[fn |-> "calcularFreteAdjust", done |-> FALSE, p |-> p, result |-> Null] :
        p \in FreteParams}
    \cup
    {[fn |-> "calculateFreight", done |-> FALSE, order |-> c[1], shipment |-> c[2],
      result |-> NoObject] : c \in CalcOrders \X CalcShipments}
    \cup
    {[fn |-> "calculateMargemContribuicao", done |-> FALSE,
      valorTotal |-> c[1], taxaPlataforma |-> c[2], frete |-> c[3], cmv |-> c[4],
      route |-> NoObject, worker |-> NoObject] :
        c \in MargemTotals \X MargemTaxas \X MargemFretes \X MargemCmvs}

\* the call of calcularFreteAdjust is made
FreteAdjustCall ==
    /\ UNCHANGED <<retryVars, saveVars, envVars, splitVars, syncVars, runVars,
                   pagingVars, queueVars, enrichVars, workerVars, authVars>>
    /\ calc.fn = "calcularFreteAdjust" /\ ~calc.done
    /\ calc' = [calc EXCEPT !.done = TRUE, !.result = calcularFreteAdjust(calc.p)]

\* the call of calculateFreight is made
FreightCall ==
    /\ UNCHANGED <<retryVars, saveVars, envVars, splitVars, syncVars, runVars,
                   pagingVars, queueVars, enrichVars, workerVars, authVars>>
    /\ calc.fn = "calculateFreight" /\ ~calc.done
    /\ calc' = [calc EXCEPT !.done = TRUE,
                            !.result = calculateFreight(calc.order, calc.shipment)]

\* the sale is put through the margin formula by the route and by the worker
MargemCall ==
    /\ UNCHANGED <<retryVars, saveVars, envVars, splitVars, syncVars, runVars,
                   pagingVars, queueVars, enrichVars, workerVars, authVars>>
    /\ calc.fn = "calculateMargemContribuicao" /\ ~calc.done
    /\ calc' = [calc EXCEPT
                   !.done = TRUE,
                   !.route = calculateMargemContribuicao(
                                 calc.valorTotal, calc.taxaPlataforma, calc.frete, calc.cmv),
                   !.worker = calculateMargemContribuicaoWorker(
                                  calc.valorTotal, calc.taxaPlataforma, calc.frete, calc.cmv)]

InitCalcVars == calc = CalcIdle

\* ---------------------------------------------------------------------
\* Enrichment of one page of orders with their shipments
\* (fetchOrdersPage and fetchOrdersInDateRange of the sync route)
\* ---------------------------------------------------------------------

\* the shipment sub-requests started together (SHIPMENT_BATCH_SIZE, scaled down)
ShipmentBatchSize == 2

\* the most orders on the page under study
MaxPageOrders == 3

EnrichPaths == {"recent", "range"}

\* what the search result says about an order's shipping: nothing, a block
\* without an id, a block with an id
ShippingKinds == {"none", "inline", "id"}

ShipmentOutcomes == {"ok", "notOk", "throws"}

\* order k of the page
EnrichOrder(k, kind) ==
    [id |-> k,
     shipping |-> CASE kind = "none" -> NoObject
                    [] kind = "inline" -> [mode |-> "me2", cost |-> Units(20 + k)]
                    [] OTHER -> [id |-> 10 + k, mode |-> "me2", cost |-> Units(20 + k)],
     total_amount |-> Units(100),
     order_items |-> <<1>>,
     detailed |-> FALSE]

\* GET /shipments/{sid}: the body of an OK response
ShipmentResponse(sid) ==
    [id |-> sid, logistic_type |-> "fulfillment", base_cost |-> Units(sid - 10),
     cost |-> Null, shipping_option |-> NoObject]

\* GET /orders/{id}: the order as the detail request returns it
OrderDetails(o) == [o EXCEPT !.detailed = TRUE]

\* order?.shipping?.id
ShippingIdOf(order) == Field(ObjectField(order, "shipping"), "id")

HasShippingId(order) == ShippingIdOf(order) \notin {Null, 0}

\* typeof order?.shipping === "object" ? order.shipping : null
InlineShipping(order) == ObjectField(order, "shipping")

\* what a sub-request that fetches nothing resolves to
UnfetchedValue(path, order) == IF path = "recent" THEN InlineShipping(order) ELSE NoObject

\* what a sub-request that fetches resolves to
FetchedValue(order, outcome) ==
    IF outcome = "ok" THEN ShipmentResponse(ShippingIdOf(order)) ELSE NoObject

\* the slot a batch result goes to if results are taken in completion order
SlotByCompletion(i, idx, completion) == completion[idx]

\* the slot the idx-th result of the batch starting after i goes to
SlotOf(i, idx, completion) == i + idx

\* batchResults.forEach: the shipment kept for an order from its settled value
ShipmentFor(path, order, value) ==
    IF path = "recent" /\ value = NoObject THEN InlineShipping(order) ELSE value

BatchEnd(i, n) == IF i + ShipmentBatchSize < n THEN i + ShipmentBatchSize ELSE n

\* the sub-requests of the batch starting after i: those without a shipping id
\* resolve at once, in index order
RECURSIVE ResolvedAtOnce(_, _, _)
ResolvedAtOnce(orders, from, to) ==
    IF from > to THEN <<>>
    ELSE (IF HasShippingId(orders[from]) THEN <<>> ELSE <<from>>)
         \o ResolvedAtOnce(orders, from + 1, to)

StartBatch(e, i) ==
    LET n == Len(e.orders)
        to == BatchEnd(i, n)
    IN  [e EXCEPT !.i = i,
                  !.inflight = {k \in (i + 1)..to : HasShippingId(e.orders[k])},
                  !.completion = ResolvedAtOnce(e.orders, i + 1, to),
                  !.settled = [k \in 1..n |->
                                  IF k \in (i + 1)..to /\ ~HasShippingId(e.orders[k])
                                  THEN UnfetchedValue(e.path, e.orders[k])
                                  ELSE e.settled[k]]]

EnrichIdle ==
    [phase |-> "idle", path |-> "recent", orders |-> <<>>, detailedOrders |-> <<>>,
     i |-> 0, inflight |-> {}, completion |-> <<>>, settled |-> <<>>,
     outcome |-> <<>>, shipments |-> <<>>, out |-> <<>>]

\* the page arrives: (date-range path) the order details are fetched, then the
\* first batch of shipment sub-requests is started
EnrichStart(path, kinds, detailsOk) ==
    /\ UNCHANGED <<retryVars, saveVars, envVars, splitVars, syncVars, runVars,
                   pagingVars, queueVars, calcVars, workerVars, authVars>>
    /\ en.phase = "idle"
    /\ LET n == Len(kinds)
           orders == [k \in 1..n |-> EnrichOrder(k, kinds[k])]
       IN  en' = StartBatch(
                     [EnrichIdle EXCEPT
                         !.phase = "batch", !.path = path, !.orders = orders,
                         !.detailedOrders =
                             [k \in 1..n |-> IF path = "range" /\ detailsOk
                                             THEN OrderDetails(orders[k]) ELSE orders[k]],
                         !.settled = [k \in 1..n |-> NoObject],
                         !.outcome = [k \in 1..n |-> "none"],
                         !.shipments = [k \in 1..n |-> NoObject]],
                     0)

\* one shipment sub-request of the batch in flight settles
ShipmentSettle(k, outcome) ==
    /\ UNCHANGED <<retryVars, saveVars, envVars, splitVars, syncVars, runVars,
                   pagingVars, queueVars, calcVars, workerVars, authVars>>
    /\ en.phase = "batch"
    /\ k \in en.inflight
    /\ en' = [en EXCEPT !.inflight = @ \ {k},
                        !.completion = Append(@, k),
                        !.settled[k] = FetchedValue(en.orders[k], outcome),
                        !.outcome[k] = outcome]

\* Promise.allSettled of the batch resolves: its results are put in their
\* slots, then the next batch starts or every order gets its payload
EnrichBatchDone ==
    /\ UNCHANGED <<retryVars, saveVars, envVars, splitVars, syncVars, runVars,
                   pagingVars, queueVars, calcVars, workerVars, authVars>>
    /\ en.phase = "batch"
    /\ en.inflight = {}
    /\ LET n == Len(en.orders)
           to == BatchEnd(en.i, n)
           shipments ==
               [k \in 1..n |->
                   IF k \in (en.i + 1)..to
                   THEN ShipmentFor(en.path, en.orders[k],
                                    en.settled[SlotOf(en.i, k - en.i, en.completion)])
                   ELSE en.shipments[k]]
           placed == [en EXCEPT !.shipments = shipments]
       IN  IF to < n
           THEN en' = StartBatch(placed, to)
           ELSE en' = [placed EXCEPT
                          !.phase = "done",
                          !.out = [k \in 1..n |->
                                      [order |-> en.detailedOrders[k],
                                       shipment |-> shipments[k],
                                       freight |-> calculateFreight(en.detailedOrders[k],
                                                                    shipments[k])]]]

InitEnrichVars == en = EnrichIdle

\* ---------------------------------------------------------------------
\* The background worker: buffer -> store (processAllUserSales)
\* ---------------------------------------------------------------------

\* the sales one dequeue may take (BATCH_SIZE, scaled down)
WorkerBatchSize == 1

\* Bound: changes to the users' SKU catalogs over a run.
MaxCatalogUpdates == 1

\* MAX_RETRIES of processSalesBatch
WorkerMaxRetries == 3

WorkerUsers == {"u1", "u2"}

\* the module-level skuCache while empty, and once filled from a user's
\* catalog at some version of it
NoCache == [loaded |-> FALSE]

CacheOf(user, version) == [loaded |-> TRUE, user |-> user, version |-> version]

\* loadSkuCache(userId): if (skuCache.size > 0) return; else findMany({ userId })
loadSkuCache(cache, userId, catalog) ==
    IF cache.loaded THEN cache ELSE CacheOf(userId, catalog[userId])

\* getQueueStats(userId).totalInQueue on the buffer q
TotalInQueue(q) ==
    IF Degrades(q.client, q.isRedisAvailable) THEN 0
    ELSE LET live == {k \in q.index : k \in DOMAIN q.kv}
         IN  IF live = {} THEN 0
             ELSE Cardinality(UNION {{<<k, i>> : i \in 1..Len(q.kv[k])} : k \in live})

\* what processSalesBatch answers the loop when it dequeued nothing
RemainingWhenNothingDequeued(q) == 0

WorkerIdle ==
    [pc |-> "idle", owner |-> "u1", userId |-> "u1", retryCount |-> 0,
     totalProcessed |-> 0, totalErrors |-> 0, skuCache |-> NoCache,
     catalog |-> [u \in WorkerUsers |-> 1], updates |-> 0, startVersion |-> 1,
     rows |-> {}, taken |-> {}, degraded |-> FALSE]

\* The buffer of the model is the queue of one user at a time: once it is
\* empty the model turns to the queue of another user.
WorkerSwitch(u) ==
    /\ UNCHANGED <<retryVars, saveVars, envVars, splitVars, syncVars, runVars, pagingVars, queueVars, calcVars, enrichVars, authVars>>
    /\ wk.pc \in {"idle", "done"}
    /\ rd.index = {} /\ rd.kv = <<>>
    /\ wk.owner # u
    /\ wk' = [wk EXCEPT !.owner = u]

\* processAllUserSales(userId) is called (lines 102-115)
WorkerStart ==
    /\ UNCHANGED <<retryVars, saveVars, envVars, splitVars, syncVars, runVars, pagingVars, queueVars, calcVars, enrichVars, authVars>>
    /\ wk.pc \in {"idle", "done"}
    /\ wk' = [wk EXCEPT !.pc = "batch", !.userId = wk.owner, !.retryCount = 0,
                        !.totalProcessed = 0, !.totalErrors = 0,
                        !.startVersion = wk.catalog[wk.owner], !.degraded = FALSE]

\* One call of processSalesBatch (lines 32-97) and what the loop of
\* processAllUserSales does with its answer (118-126).  failAt: the store
\* command of dequeueSales that throws; failing: the sales whose upsert is
\* rejected; throwAt: the progress send that throws (1: before the save, 2:
\* after it, 0: none), sendProgressToUser being called unguarded here.
WorkerBatch(failAt, failing, throwAt) ==
    /\ UNCHANGED <<retryVars, saveVars, envVars, splitVars, syncVars, runVars, pagingVars, calcVars, enrichVars, authVars>>
    /\ wk.pc = "batch"
    /\ Dequeue(WorkerBatchSize, failAt)
    /\ LET sales == rd'.last.sales
           got == Items(sales)
           down == Degrades(rd'.last.client, rd'.last.available) \/ rd'.last.threw
           cache == loadSkuCache(wk.skuCache, wk.userId, wk.catalog)
           saved == got \ failing
           rows == {[sale |-> s, userId |-> wk.userId, cost |-> cache,
                     startVersion |-> wk.startVersion] : s \in saved}
           seen == [wk EXCEPT !.taken = @ \cup got, !.degraded = @ \/ down]
           remaining == TotalInQueue(rd')
       IN  IF sales = <<>>
           THEN \* return { processed: 0, remaining: 0, errors: 0 }
                /\ failing = {} /\ throwAt = 0
                /\ wk' = [seen EXCEPT !.retryCount = 0,
                             !.pc = IF RemainingWhenNothingDequeued(rd') = 0
                                    THEN "done" ELSE "batch"]
           ELSE /\ failing \subseteq got
                /\ throwAt = 1 => failing = {}
                /\ IF throwAt # 0
                   THEN \* catch: retry with the next call, or give up
                        LET kept == IF throwAt = 2
                                    THEN [seen EXCEPT !.skuCache = cache,
                                                      !.rows = @ \cup rows]
                                    ELSE seen
                        IN  wk' = IF wk.retryCount < WorkerMaxRetries
                                  THEN [kept EXCEPT !.retryCount = @ + 1]
                                  ELSE [kept EXCEPT !.retryCount = 0, !.pc = "done",
                                                    !.totalErrors = @ + 1]
                   ELSE wk' = [seen EXCEPT
                                  !.skuCache = cache,
                                  !.rows = @ \cup rows,
                                  !.retryCount = 0,
                                  !.totalProcessed = @ + Cardinality(saved),
                                  !.totalErrors = @ + Cardinality(got \cap failing),
                                  !.pc = IF remaining = 0 THEN "done" ELSE "batch"]

\* a user's SKU catalog changes in the store
CatalogUpdate(u) ==
    /\ UNCHANGED <<retryVars, saveVars, envVars, splitVars, syncVars, runVars, pagingVars, queueVars, calcVars, enrichVars, authVars>>
    /\ wk.updates < MaxCatalogUpdates
    /\ wk' = [wk EXCEPT !.catalog[u] = @ + 1, !.updates = @ + 1]

\* the TTL of an entry runs out: the store drops it, the index keeps its key
QueueExpire(key) ==
    /\ UNCHANGED <<retryVars, saveVars, envVars, splitVars, syncVars, runVars, pagingVars, calcVars, enrichVars, workerVars, authVars>>
    /\ key \in DOMAIN rd.kv
    /\ rd' = [rd EXCEPT !.kv = Del(@, key)]

InitWorkerVars == wk = WorkerIdle

\* ---------------------------------------------------------------------
\* Who may call the sync handler, and how a run calls it again
\* ---------------------------------------------------------------------

\* Bound: the follow-up requests of one chain of runs.
MaxChain == 2

\* req.cookies.get("session")?.value: absent, a token jwtVerify accepts, or
\* a text it rejects (among them the text "undefined")
Cookies == {"<absent>", "token-u1", "expired", "undefined"}

\* req.headers.get('x-cron-secret'): absent, or a text
CronHeaders == {"<absent>", "s3cret", "wrong"}

\* process.env.CRON_SECRET: unset, or the secret
CronSecrets == {"<unset>", "s3cret"}

\* the first account id of the body: none, one of a user, an unknown one
FirstAccounts == {"<none>", "a1", "zz"}

Requests ==
    [cookie : Cookies, cronHeader : CronHeaders, accountId : FirstAccounts,
     quickMode : {"undefined", "false"}]

NoRequest == [cookie |-> "<absent>", cronHeader |-> "<absent>", accountId |-> "<none>", quickMode |-> "<none>"]

\* tryVerifySessionToken(token): the payload's sub, or null
tryVerifySessionToken(token) == IF token = "token-u1" THEN "u1" ELSE "<null>"

\* prisma.meliAccount.findUnique({ where: { id } }): its userId, or null
AccountOwner(id) == IF id = "a1" THEN "u1" ELSE "<null>"

\* The head of POST (lines 1626-1679): the status it answers at once (0:
\* none, the run goes on), the user and the way the caller was accepted.
Authenticate(req, envSecret) ==
    IF req.cronHeader # "<absent>" /\ req.cronHeader = envSecret
    THEN IF req.accountId = "<none>"
         THEN [status |-> 400, userId |-> "<null>", by |-> "none"]
         ELSE IF AccountOwner(req.accountId) = "<null>"
         THEN [status |-> 404, userId |-> "<null>", by |-> "none"]
         ELSE [status |-> 0, userId |-> AccountOwner(req.accountId), by |-> "cron"]
    ELSE IF tryVerifySessionToken(req.cookie) = "<null>"
         THEN [status |-> 401, userId |-> "<null>", by |-> "none"]
         ELSE [status |-> 0, userId |-> tryVerifySessionToken(req.cookie), by |-> "session"]

\* `session=${sessionCookie}` read back by the handler that receives it: an
\* absent cookie is sent as the text "undefined"
TemplateCookie(cookie) == IF cookie = "<absent>" THEN "undefined" ELSE cookie

\* the request of lines 2128-2141: the session cookie and the body, no
\* other header of the original request
Continuation(req) ==
    [cookie |-> TemplateCookie(req.cookie), cronHeader |-> "<absent>",
     accountId |-> req.accountId, quickMode |-> req.quickMode]

AuthIdle ==
    [pc |-> "idle", envSecret |-> "<unset>", req |-> NoRequest, status |-> 0,
     userId |-> "<null>", by |-> "none", origin |-> "none", chain |-> 0,
     sent |-> NoRequest, pending |-> FALSE]

\* the handler receives req: it answers at once or the run starts
Receive(a, req, first) ==
    LET auth == Authenticate(req, a.envSecret)
    IN  [a EXCEPT !.req = req, !.status = auth.status, !.userId = auth.userId,
                  !.by = auth.by,
                  !.origin = IF first THEN auth.by ELSE @,
                  !.chain = IF first THEN 0 ELSE @ + 1,
                  !.pending = FALSE,
                  !.sent = IF first THEN NoRequest ELSE @,
                  !.pc = IF auth.status = 0 THEN "running" ELSE "answered"]

\* A caller (the browser, the cron trigger route) invokes POST with req.
AuthPost(req) ==
    /\ UNCHANGED <<retryVars, saveVars, envVars, splitVars, syncVars, runVars, pagingVars, queueVars, calcVars, enrichVars, workerVars>>
    /\ au.pc \in {"idle", "answered"} /\ ~au.pending
    /\ au' = Receive(au, req, TRUE)

\* The run ends (lines 2082-2147): with more to synchronise it sends the
\* follow-up request and answers without waiting for it.
AuthRunEnds(hasMoreToSync) ==
    /\ UNCHANGED <<retryVars, saveVars, envVars, splitVars, syncVars, runVars, pagingVars, queueVars, calcVars, enrichVars, workerVars>>
    /\ au.pc = "running"
    /\ hasMoreToSync => au.chain < MaxChain
    /\ au' = [au EXCEPT !.pc = "answered", !.status = 200,
                        !.sent = IF hasMoreToSync THEN Continuation(au.req) ELSE NoRequest,
                        !.pending = hasMoreToSync]

\* The follow-up request reaches the handler.
AuthFollowUp ==
    /\ UNCHANGED <<retryVars, saveVars, envVars, splitVars, syncVars, runVars, pagingVars, queueVars, calcVars, enrichVars, workerVars>>
    /\ au.pc = "answered" /\ au.pending
    /\ au' = Receive(au, au.sent, FALSE)

InitAuthVars == au = AuthIdle

\* The upstream datasets the splitter is run against: one day holding more
\* than the ceiling, a month above the ceiling whose fortnights are below
\* it, a month above 50,000, and a small one.
SplitDatasets ==
    {<<Group(20, 120), Group(3, 10000)>>,
     <<Group(30, 30), Group(20, 40), Group(5, 9900)>>,
     <<Group(24, 9000), Group(20, 9000), Group(16, 9000), Group(12, 9000),
       Group(8, 9000), Group(4, 9000), Group(0, 9000)>>,
     <<Group(14, 70), Group(1, 60)>>}

\* The (dateFrom, dateTo) the splitter is called with: a 31-day month, a
\* fortnight, a week and a single day.
SplitRanges ==
    {<<0, 31 * Day - 1>>, <<0, 14 * Day>>, <<0, 7 * Day>>, <<3 * Day, 4 * Day - 1>>}

\* fetchOrdersInDateRange is called from outside (the month walk).
SplitCall(dateFrom, dateTo) ==
    /\ UNCHANGED <<retryVars, saveVars, envVars, syncVars, runVars, pagingVars, queueVars, calcVars, enrichVars, workerVars, authVars>>
    /\ stack = <<>> \/ (Len(stack) = 1 /\ Top.pc = "ret")
    /\ stack' = <<Frame(dateFrom, dateTo)>>
    /\ late' = StartedAt(now, "probe")
    /\ now' = now
    /\ faults' = 0
    /\ failed' = failed

InitSplitVars ==
    /\ up = <<>>
    /\ latency = 0
    /\ now = 0
    /\ late = {}
    /\ faults = 0
    /\ stack = <<>>
    /\ failed = FALSE

InitSplit ==
    /\ rt = RetryIdle
    /\ InitSaveVars
    /\ InitSyncVars
    /\ InitRunVars /\ InitPagingVars /\ InitQueueVars /\ InitCalcVars /\ InitEnrichVars /\ InitWorkerVars /\ InitAuthVars
    /\ up \in SplitDatasets
    /\ latency = 0
    /\ now = 0
    /\ late = {}
    /\ faults = 0
    /\ stack = <<>>
    /\ failed = FALSE

NextSplit ==
    \/ \E r \in SplitRanges : SplitCall(r[1], r[2])
    \/ \E ok \in BOOLEAN : SplitProbe(ok)
    \/ SplitNext
    \/ SplitReturn
    \/ \E ok \in BOOLEAN : SplitPage(ok)

SpecSplit == InitSplit /\ [][NextSplit]_vars

\* The accounts the sync is run against: a small one, one above the offset
\* ceiling of the recent search, and one whose previous month is above the
\* ceiling of a date-range search.
SyncDatasets ==
    {<<Group(70, 40), Group(40, 20)>>,
     <<Group(70, 9960), Group(40, 80)>>,
     <<Group(70, 200), Group(50, 5000), Group(35, 5000)>>}

\* The offsets a recent page is requested at.
PageOffsets == {k * PageLimit : k \in 0..(MaxOffset \div PageLimit)}

\* ms per upstream request: a fast and a slow upstream.
SyncLatencies == {100, 16000}

InitSync ==
    /\ rt = RetryIdle
    /\ InitSaveVars
    /\ InitSyncVars
    /\ InitRunVars /\ InitPagingVars /\ InitQueueVars /\ InitCalcVars /\ InitEnrichVars /\ InitWorkerVars /\ InitAuthVars
    /\ up \in SyncDatasets
    /\ latency \in SyncLatencies
    /\ now = 0
    /\ late = {}
    /\ faults = 0
    /\ stack = <<>>
    /\ failed = FALSE

NextSync ==
    \/ \E mode \in SyncModes, failing \in RecentFailures, status \in PageFailureStatuses :
          (failing = {} => status = 503) /\ SyncCall(mode, failing, status)
    \/ fa.pc = "recent" /\ \E offset \in PageOffsets : SyncPageDone(offset)
    \/ SyncAfterRecent
    \/ SyncMonthLoop
    \/ SyncMonthDone
    \/ \E ok \in BOOLEAN, lands \in BOOLEAN : SyncSave(ok, lands)
    \/ SplitProbe(TRUE)
    \/ SplitNext
    \/ SplitReturn
    \/ SplitPage(TRUE)

\* A run is started again for as long as the caller or the route's own
\* follow-up request asks for it, and every awaited request is answered.
SpecSync == InitSync /\ [][NextSync]_vars /\ WF_vars(NextSync)

InitRun == rt = RetryIdle /\ InitSaveVars /\ InitSplitVars /\ InitSyncVars /\ InitRunVars /\ InitPagingVars /\ InitQueueVars /\ InitCalcVars /\ InitEnrichVars /\ InitWorkerVars /\ InitAuthVars

NextRun ==
    \/ rq.pc \in {"idle", "done"} /\ \E body \in Bodies : RunStart(body)
    \/ RunNext
    \/ \E id \in 1..(MaxPeers + 1), ok \in BOOLEAN : RefreshSettle(id, ok)
    \/ RunRefreshDone
    \/ \E outcome \in FetchOutcomes : RunFetch(outcome)
    \/ \E account \in {"a1", "a2"} : PeerAcquire(account)
    \/ \E p \in 1..MaxPeers : PeerRefreshDone(p)

SpecRun == InitRun /\ [][NextRun]_vars

InitPaging ==
    /\ rt = RetryIdle /\ InitSaveVars /\ InitSplitVars /\ InitSyncVars /\ InitRunVars /\ InitPagingVars /\ InitQueueVars /\ InitCalcVars /\ InitEnrichVars /\ InitWorkerVars /\ InitAuthVars

NextPaging ==
    \/ pf.pc \in {"idle", "done"}
         /\ \E env \in EnvValues, total \in PagingTotals : PagingStart(env, total)
    \/ \E ok \in BOOLEAN, t \in ElapsedValues : PagingPageDone(ok, t)

SpecPaging == InitPaging /\ [][NextPaging]_vars

InitQueue ==
    /\ rt = RetryIdle /\ InitSaveVars /\ InitSplitVars /\ InitSyncVars /\ InitRunVars
    /\ InitPagingVars /\ InitQueueConfigs /\ InitCalcVars /\ InitEnrichVars /\ InitWorkerVars /\ InitAuthVars

NextQueue ==
    \/ \E accountId \in QueueAccounts, n \in 0..2, failAt \in 0..3 :
          EnqueueSales(accountId, n, failAt)
    \/ \E limit \in 1..2, failAt \in 0..4 : DequeueSales(limit, failAt)
    \/ QueueTick
    \/ \E up2 \in BOOLEAN : ClientEvent(up2)

SpecQueue == InitQueue /\ [][NextQueue]_vars

\* ioredis reconnects for ever (retryStrategy always answers a delay), so a
\* client with handlers gets its 'connect' and 'ready' events in the end.
SpecQueueLive == SpecQueue /\ WF_vars(ClientEvent(TRUE))

InitCalc ==
    /\ rt = RetryIdle /\ InitSaveVars /\ InitSplitVars /\ InitSyncVars /\ InitRunVars
    /\ InitPagingVars /\ InitQueueVars /\ InitEnrichVars /\ InitWorkerVars /\ InitAuthVars
    /\ calc \in CalcCalls

NextCalc ==
    \/ FreteAdjustCall
    \/ FreightCall
    \/ MargemCall

SpecCalc == InitCalc /\ [][NextCalc]_vars

InitEnrich ==
    /\ rt = RetryIdle /\ InitSaveVars /\ InitSplitVars /\ InitSyncVars /\ InitRunVars
    /\ InitPagingVars /\ InitQueueVars /\ InitCalcVars /\ InitEnrichVars /\ InitWorkerVars /\ InitAuthVars

Pages(n) == UNION {[1..m -> ShippingKinds] : m \in 1..n}

NextEnrich ==
    \/ \E path \in EnrichPaths, kinds \in Pages(MaxPageOrders), detailsOk \in BOOLEAN :
          EnrichStart(path, kinds, detailsOk)
    \/ \E k \in 1..MaxPageOrders, outcome \in ShipmentOutcomes : ShipmentSettle(k, outcome)
    \/ EnrichBatchDone

SpecEnrich == InitEnrich /\ [][NextEnrich]_vars

InitWorker ==
    /\ rt = RetryIdle /\ InitSaveVars /\ InitSplitVars /\ InitSyncVars /\ InitRunVars
    /\ InitPagingVars /\ InitQueueVars /\ InitCalcVars /\ InitEnrichVars /\ InitWorkerVars /\ InitAuthVars

QueueKeys == {GetQueueKey(a, t) : a \in QueueAccounts, t \in 1..MaxClock}

NextWorker ==
    \/ \E accountId \in QueueAccounts, n \in 1..2 : EnqueueSales(accountId, n, 0)
    \/ QueueTick
    \/ \E key \in QueueKeys : QueueExpire(key)
    \/ \E u \in WorkerUsers : WorkerSwitch(u)
    \/ WorkerStart
    \/ \E failAt \in 0..4, failing \in SUBSET (1..MaxSales), throwAt \in 0..2 :
          WorkerBatch(failAt, failing, throwAt)
    \/ \E u \in WorkerUsers : CatalogUpdate(u)

SpecWorker == InitWorker /\ [][NextWorker]_vars

InitAuth ==
    /\ rt = RetryIdle /\ InitSaveVars /\ InitSplitVars /\ InitSyncVars /\ InitRunVars
    /\ InitPagingVars /\ InitQueueVars /\ InitCalcVars /\ InitEnrichVars /\ InitWorkerVars
    /\ \E envSecret \in CronSecrets : au = [AuthIdle EXCEPT !.envSecret = envSecret]

NextAuth ==
    \/ \E req \in Requests : AuthPost(req)
    \/ \E hasMoreToSync \in BOOLEAN : AuthRunEnds(hasMoreToSync)
    \/ AuthFollowUp

SpecAuth == InitAuth /\ [][NextAuth]_vars

InitSave == rt = RetryIdle /\ InitSaveVars /\ InitSplitVars /\ InitSyncVars /\ InitRunVars /\ InitPagingVars /\ InitQueueVars /\ InitCalcVars /\ InitEnrichVars /\ InitWorkerVars /\ InitAuthVars

NextSave ==
    \/ sv.pc = "idle" /\ \E orders \in Batches, skuFails \in BOOLEAN :
                             SaveCall(orders, skuFails)
    \/ \E outcome \in ChunkOutcomes : SaveChunk(outcome)
    \/ SaveReturn

SpecSave == InitSave /\ [][NextSave]_vars

InitRetry == rt = RetryIdle /\ InitSaveVars /\ InitSplitVars /\ InitSyncVars /\ InitRunVars /\ InitPagingVars /\ InitQueueVars /\ InitCalcVars /\ InitEnrichVars /\ InitWorkerVars /\ InitAuthVars

NextRetry ==
    \/ \E n \in 0..MaxRetryBudget, u \in BOOLEAN : RetryCall(n, u)
    \/ \E s \in HttpStatuses, j \in JitterValues : RetryResponse(s, j)
    \/ \E j \in JitterValues : RetryNetworkError(j)
    \/ RetrySleepDone

SpecRetry == InitRetry /\ [][NextRetry]_vars

(***************************************************************************)
(*                     Claims about the retrying transport                 *)
(***************************************************************************)

RetryFinished == rt.pc \in {"returned", "thrown"}

\* The statuses the transport retries, as the specification lists them.
RetryableStatusList == {429, 500, 502, 503, 504}

\* A failure that leads to a retry: a retryable status or a network error.
RetryableFailure(h) == h = NetErr \/ h \in RetryableStatusList

\* C6: a response whose status is 401, 403 or any other non-OK status outside
\* {429, 500, 502, 503, 504} ends the call at once: it is the returned
\* response, it is the last request issued, and no backoff wait follows it;
\* when it answers the first request, exactly one request was issued and
\* there was no wait at all.
C6_FatalReturnedAtOnce ==
    \A k \in 1..Len(rt.hist) :
        (rt.hist[k] \in HttpStatuses \ (OkStatuses \cup RetryableStatusList)) =>
            /\ rt.pc = "returned"
            /\ rt.result = rt.hist[k]
            /\ k = Len(rt.hist)
            /\ rt.requests = k
            /\ Len(rt.waits) = k - 1

C6_Witness ==
    /\ rt.pc = "returned"
    /\ rt.hist = <<403>>
    /\ rt.requests = 1
    /\ rt.maxRetries = DefaultMaxRetries

\* C7: with budget N = maxRetries, at most N requests are ever issued; a
\* finished call whose N attempts all ended in a retryable HTTP status
\* returned the last response (it did not throw); a finished call whose N
\* attempts all failed at network level threw.
C7_ExhaustionOutcome ==
    /\ rt.requests <= rt.maxRetries
    /\ Len(rt.hist) <= rt.requests
    /\ (/\ RetryFinished
        /\ rt.maxRetries >= 1
        /\ Len(rt.hist) = rt.maxRetries
        /\ \A k \in 1..Len(rt.hist) : rt.hist[k] \in RetryableStatusList)
       => (rt.pc = "returned" /\ rt.result = Last(rt.hist))
    /\ (/\ RetryFinished
        /\ rt.maxRetries >= 1
        /\ Len(rt.hist) = rt.maxRetries
        /\ \A k \in 1..Len(rt.hist) : rt.hist[k] = NetErr)
       => rt.pc = "thrown"

C7_Witness ==
    /\ rt.pc = "returned"
    /\ rt.maxRetries = DefaultMaxRetries
    /\ rt.hist = <<503, 429, 500>>
    /\ rt.requests = 3

\* C8: the deterministic part of the wait that follows failed attempt k is
\* 1000 * 2^k ms (1000, 2000, 4000 for k = 0, 1, 2), strictly increasing with
\* k, whether attempt k failed with a retryable status or at network level.
C8_BackoffDelays ==
    \A i \in 1..Len(rt.waits) :
        /\ rt.waits[i].attempt = i - 1
        /\ RetryableFailure(rt.hist[i])
        /\ rt.waits[i].delay = 1000 * Pow2(i - 1)
        /\ i = 1 => rt.waits[i].delay = 1000
        /\ i = 2 => rt.waits[i].delay = 2000
        /\ i = 3 => rt.waits[i].delay = 4000
        /\ i > 1 => rt.waits[i].delay > rt.waits[i - 1].delay

C8_Witness ==
    /\ Len(rt.waits) = 3
    /\ rt.hist[1] = NetErr
    /\ rt.hist[2] = 503
    /\ rt.hist[3] = 429
    /\ rt.waits[3].delay = 4000

RetryingEvents == {i \in 1..Len(rt.events) : rt.events[i].kind = "retrying"}

\* C9 as stated: a finished call (made with a userId) that met a retryable
\* failure emitted exactly one warning event, the one of the first retry.
C9_ExactlyOneWarning ==
    (/\ RetryFinished
     /\ rt.userId
     /\ \E k \in 1..Len(rt.hist) : RetryableFailure(rt.hist[k]))
    => (Len(rt.events) = 1 /\ rt.events[1].attempt = 0)

\* C9 amended: the "retrying" warning is emitted exactly once per call, with
\* the backoff wait that follows failed attempt 0, and never for a later
\* attempt; any other warning (budget exhausted by a network error, 401/403)
\* is the call's last act, so a call emits at most two warnings; a call made
\* without a userId emits none.
C9_OneRetryingWarning ==
    /\ ~rt.userId => rt.events = <<>>
    /\ rt.userId =>
        /\ Cardinality(RetryingEvents) = (IF Len(rt.waits) >= 1 THEN 1 ELSE 0)
        /\ \A i \in RetryingEvents : i = 1 /\ rt.events[i].attempt = 0
        /\ Len(rt.events) <= 2
        /\ \A i \in 1..Len(rt.events) :
              rt.events[i].kind # "retrying" => (i = Len(rt.events) /\ RetryFinished)

C9_Witness ==
    /\ rt.pc = "thrown"
    /\ rt.userId
    /\ rt.hist = <<NetErr, 503, NetErr>>
    /\ Len(rt.events) = 2
    /\ rt.events[1].kind = "retrying"
    /\ rt.events[2].kind = "exhausted"

(***************************************************************************)
(*                       Claims about the persistence                      *)
(***************************************************************************)

RowsOf(id) == {r \in db : r.orderId = id}

\* Position k of the batch carries an external id that no earlier position carries.
FirstOccurrence(orders, k) ==
    /\ ExtractOrderIdFromPayload(orders[k]) # NoId
    /\ \A j \in 1..(k - 1) :
          ExtractOrderIdFromPayload(orders[j]) # ExtractOrderIdFromPayload(orders[k])

StatementsWith(id, stmt) ==
    {w \in 1..Len(sv.writes) :
        sv.writes[w].stmt = stmt /\ \E k \in 1..Len(sv.writes[w].ids) : sv.writes[w].ids[k] = id}

\* C2: the store never holds two rows with the same external order id; and
\* when an invocation has finished without a store failure, every order of
\* the batch that could be prepared has exactly one row, carrying the values
\* of this invocation, written by an update when the id was stored before
\* the invocation (second pass) and by a create when it was not (first pass).
C2_UpsertIdempotence ==
    /\ \A r1 \in db, r2 \in db : r1.orderId = r2.orderId => r1 = r2
    /\ (sv.pc = "done" /\ ~sv.failed) =>
          \A k \in 1..Len(sv.orders) :
             LET o == sv.orders[k]
                 id == ExtractOrderIdFromPayload(o)
             IN (FirstOccurrence(sv.orders, k) /\ o.val # BadVal) =>
                   /\ RowsOf(id) = {[orderId |-> id, val |-> o.val]}
                   /\ IF \E r \in sv.old : r.orderId = id
                      THEN StatementsWith(id, "update") # {} /\ StatementsWith(id, "create") = {}
                      ELSE StatementsWith(id, "create") # {} /\ StatementsWith(id, "update") = {}

C2_Witness ==
    /\ sv.pc = "done"
    /\ ~sv.failed
    /\ sv.orders = <<[id |-> <<"1">>, val |-> 2]>>
    /\ sv.old = {[orderId |-> <<"1">>, val |-> 1]}
    /\ db = {[orderId |-> <<"1">>, val |-> 2]}
    /\ sv.saved = 1

RECURSIVE Flatten(_)
Flatten(ss) == IF ss = <<>> THEN <<>> ELSE Head(ss) \o Flatten(Tail(ss))

\* The ids of every create and update statement of the invocation, in order.
WrittenIds == Flatten([w \in 1..Len(sv.writes) |-> sv.writes[w].ids])

NoRepeat(s) == \A a \in 1..Len(s), b \in 1..Len(s) : s[a] = s[b] => a = b

DistinctIds(orders) == {ExtractOrderIdFromPayload(o) : o \in Range(orders)} \ {NoId}

WithId(orders) == {k \in 1..Len(orders) : ExtractOrderIdFromPayload(orders[k]) # NoId}

\* C3 as stated: within one invocation no external id is placed in two
\* statements, and duplicates = batchSize - number of distinct ids.
C3_DuplicatesOfBatchSize ==
    sv.pc # "idle" =>
        /\ NoRepeat(WrittenIds)
        /\ sv.duplicates = Len(sv.orders) - Cardinality(DistinctIds(sv.orders))

\* C3 amended: within one invocation no external id is placed in two
\* statements, and duplicates = (number of orders that carry a non-empty
\* external id) - (number of distinct ids); an order without an id is passed
\* through the dedup uncounted.
C3_DuplicatesOfIdentified ==
    sv.pc # "idle" =>
        /\ NoRepeat(WrittenIds)
        /\ sv.duplicates = Cardinality(WithId(sv.orders)) - Cardinality(DistinctIds(sv.orders))
        /\ Len(sv.unique) = Len(sv.orders) - sv.duplicates

C3_Witness ==
    /\ sv.pc = "done"
    /\ sv.orders = <<[id |-> <<" ", "1">>, val |-> 1], [id |-> NoId, val |-> 1],
                     [id |-> <<"1">>, val |-> 2]>>
    /\ sv.duplicates = 1
    /\ Len(WrittenIds) = 1

(***************************************************************************)
(*                    Claims about the period splitter                     *)
(***************************************************************************)

Duration(f) == f.to - f.from

\* C4: whenever a probed range reports more than 9,950 orders, every
\* recursive call of fetchOrdersInDateRange is made on a strictly shorter
\* range than the call that makes it, also when the probed range is no longer
\* than the sub-period or is a single day.
C4_StrictlyShorterRecursion ==
    \A i \in 2..Len(stack) : Duration(stack[i]) < Duration(stack[i - 1])

SubRangesOrdered(f) ==
    \A i \in 1..Len(f.subs) :
        /\ f.subs[i][1] < f.subs[i][2]
        /\ f.from <= f.subs[i][1]
        /\ f.subs[i][2] <= f.to
        /\ i > 1 => f.subs[i][1] > f.subs[i - 1][2]

\* two runs of results, as intervals of positions, share no order
Apart(p, q) == p[2] < q[1] \/ q[2] < p[1]

NoOrderTwice(res) ==
    \A i, j \in 1..Len(res) : i < j => Apart(res[i], res[j])

\* C5: the sub-ranges a call of fetchOrdersInDateRange recurses on are
\* visited in chronological order, each starts strictly after the previous
\* one ends, none extends past dateTo, and no order is returned by two
\* different leaf ranges.
C5_SubRangesDisjoint ==
    \A i \in 1..Len(stack) :
        /\ SubRangesOrdered(stack[i])
        /\ NoOrderTwice(stack[i].res)

\* A split call has returned after recursing on three sub-ranges, two of
\* which returned orders.
C5_Witness ==
    /\ Len(stack) = 1
    /\ Top.pc = "ret"
    /\ Len(Top.subs) >= 3
    /\ \E i, j \in 1..Len(Top.res) :
          \E a, b \in 1..Len(Top.subs) :
             /\ a < b
             /\ LET lo(k) == CountNewer(up, Top.subs[k][2]) + 1
                    hi(k) == CountNewer(up, Top.subs[k][2])
                               + CountInRange(up, Top.subs[k][1], Top.subs[k][2])
                IN /\ lo(a) <= Top.res[i][1] /\ Top.res[i][2] <= hi(a)
                   /\ lo(b) <= Top.res[j][1] /\ Top.res[j][2] <= hi(b)

(***************************************************************************)
(*                     Claims about one account's sync                     *)
(***************************************************************************)

\* The run has ended with every upstream order persisted, the totals equal
\* and no more work announced.
Converged ==
    /\ run.pc = "done"
    /\ AllPersisted(vendas)
    /\ run.fetched = run.expected
    /\ ~run.hasMoreToSync

\* C1: against a fixed, finite upstream order set, with no upstream or store
\* failure, invoking the sync run again and again eventually reaches a run
\* after which every upstream order is persisted, totals.fetched equals
\* totals.expected and hasMoreToSync is false.
C1_ResumptionConverges == <>(failed \/ Converged)

\* C10: once the elapsed time of an account's fetch exceeds the budget of
\* 30 s, no new order-search request (recent page, count probe or date-range
\* page) is started for that account.
C10_NoSearchAfterBudget == late = {}

\* Orders are known to remain unfetched: the recent paging stopped with the
\* next offset below min(ceiling, discoveredTotal), or the month walk was
\* entered and did not end on an empty month.
KnownWorkRemains ==
    \/ fa.discoveredTotal # NoTotal /\ fa.nextOffset < Min(MaxOffset, fa.discoveredTotal)
    \/ fa.currentMonthStart # NoDate /\ ~fa.brk

\* C11: fetchAllOrdersForAccount returns forcedStop = true if and only if the
\* time budget cut fetching short while orders were known to remain
\* unfetched; it is never true when all known work was fetched.
C11_ForcedStopIffTruncated ==
    fa.pc = "done" => (fa.forcedStop <=> KnownWorkRemains)

(***************************************************************************)
(*                      Claims about the route handler                     *)
(***************************************************************************)

RECURSIVE LogFetched(_)
LogFetched(log) == IF log = <<>> THEN 0 ELSE log[1].fetched + LogFetched(Tail(log))

RECURSIVE LogExpected(_)
LogExpected(log) == IF log = <<>> THEN 0 ELSE log[1].expected + LogExpected(Tail(log))

SomeForcedStop == \E i \in DOMAIN rq.log : rq.log[i].forcedStop

PendingVolume == LogFetched(rq.log) < LogExpected(rq.log)

RunEnded == rq.pc = "done" /\ rq.accounts # <<>>

\* C12 as stated: at the end of a run the flag equals (some account was
\* forced-stopped) or (fetched < expected in total), whatever quickMode and
\* fullSync are.
C12_FlagIgnoresMode ==
    RunEnded => (rq.hasMoreToSync <=> (SomeForcedStop \/ PendingVolume))

\* C12: at the end of a run the flag equals (some account was forced-stopped)
\* or ((fullSync or quickMode) and fetched < expected in total): with both
\* quickMode and fullSync off a missing volume alone does not set it.
C12_FlagGatedByMode ==
    RunEnded =>
        (rq.hasMoreToSync <=>
            (SomeForcedStop
             \/ ((FullSync(rq.body) \/ QuickMode(rq.body)) /\ PendingVolume)))

C12_Witness ==
    /\ RunEnded
    /\ ~QuickMode(rq.body) /\ ~FullSync(rq.body)
    /\ PendingVolume /\ ~SomeForcedStop
    /\ ~rq.hasMoreToSync

\* C13: a run over at least one account ends in exactly one of two ways:
\* with the flag set, one follow-up request carrying the accountIds,
\* quickMode and fullSync of this request has been sent (the handler has
\* answered, it did not wait for it) and the channels are not closed; with
\* the flag clear, no follow-up has been sent and the channels are closed.
\* Before the end neither has happened.
C13_FollowUpOrClose ==
    /\ RunEnded =>
          IF rq.hasMoreToSync
          THEN rq.followUps = <<rq.body>> /\ ~rq.closed
          ELSE rq.followUps = <<>> /\ rq.closed
    /\ rq.pc \in {"next", "await", "fetch"} => rq.followUps = <<>> /\ ~rq.closed

C13_Witness ==
    /\ RunEnded /\ rq.hasMoreToSync
    /\ rq.body.quickMode = "undefined" /\ rq.body.accountIds = {"a2"}
    /\ rq.followUps = <<rq.body>> /\ ~rq.closed

PendingFor(account) == {f \in refreshes : f.account = account /\ f.state = "pending"}

\* the account an awaiting invocation is at (0: the invocation under study)
AccountOf(who) == IF who = 0 THEN rq.accounts[rq.idx] ELSE peers[who].account

MutexState ==
    /\ \A a \in {"a1", "a2"} : Cardinality(PendingFor(a)) <= 1
    /\ \A f \in refreshes : \A who \in Awaiters(f.id) : AccountOf(who) = f.account
    /\ \A a \in DOMAIN tokenRefreshMutex :
          /\ OwnerAwaits(tokenRefreshMutex[a])
          /\ RefreshOf(tokenRefreshMutex[a]).account = a
    /\ \A f \in refreshes : f.state = "pending" => HasRefresh(tokenRefreshMutex, f.account)

MutexStep ==
    /\ rq.pc = "next" /\ rq'.pc = "await" /\ PendingFor(rq.accounts[rq.idx]) # {}
         => /\ refreshes' = refreshes
            /\ ~rq'.owner
            /\ PendingFor(rq.accounts[rq.idx]) = {RefreshOf(rq'.awaiting)}
    /\ rq.pc = "await" /\ rq'.pc = "fetch" => RefreshOf(rq.awaiting).state = "ok"
    /\ rq.pc = "await" /\ rq'.pc = "next" => RefreshOf(rq.awaiting).state = "failed"
    /\ rq.pc = "await" /\ rq'.pc # "await" /\ rq.owner
         => ~HasRefresh(tokenRefreshMutex', rq.accounts[rq.idx])

\* C14: in one process at most one refresh is in flight per account; an
\* invocation that finds one in flight starts none and awaits that one, and
\* resumes with its result or its failure; the mutex entry of an account
\* is there while the refresh is in flight and is gone once the invocation
\* that started it has resumed, after success and after failure.
C14_RefreshMutex == [](MutexState) /\ [][MutexStep]_vars

C14_Witness ==
    /\ rq.pc = "await" /\ ~rq.owner
    /\ RefreshOf(rq.awaiting).state = "failed"
    /\ ~HasRefresh(tokenRefreshMutex, rq.accounts[rq.idx])
    /\ peers = <<>>

ErrorsOf(account) == {i \in DOMAIN rq.errors : rq.errors[i].accountId = account}

RefreshFailedFor(account) ==
    \E i \in ErrorsOf(account) : rq.errors[i].message = "refresh"

Fetched(account) == \E i \in DOMAIN rq.refreshed : rq.refreshed[i] = account

Saved(account) == \E i \in DOMAIN rq.log : rq.log[i].account = account

\* C16: an account whose token refresh failed is skipped, no fetch and no
\* save is made for it, it has exactly one entry in the list of errors, and
\* the accounts after it are still processed: at the end of the run every
\* account in scope has been fetched or has its entry.
C16_RefreshFailureSkipsAccount ==
    /\ \A i \in DOMAIN rq.accounts :
          RefreshFailedFor(rq.accounts[i]) =>
              /\ Cardinality(ErrorsOf(rq.accounts[i])) = 1
              /\ ~Fetched(rq.accounts[i])
              /\ ~Saved(rq.accounts[i])
    /\ RunEnded =>
          \A i \in DOMAIN rq.accounts :
              Fetched(rq.accounts[i]) \/ RefreshFailedFor(rq.accounts[i])

C16_Witness ==
    /\ RunEnded
    /\ rq.accounts = <<"a1", "a2">>
    /\ RefreshFailedFor("a1")
    /\ Saved("a2")

(***************************************************************************)
(*                 Claims about the account loop and its pages             *)
(***************************************************************************)

\* C15: accounts are processed strictly one after the other: when the
\* handler has saved an account and moves on to the next, no search request
\* of the account it leaves is still in flight, also when the account's
\* fetch was cut short by the time budget.
C15_NoRequestLeftInFlight ==
    run.pc = "done" => run.inflight = 0

\* C17: once a search request of the account has been answered 401 or 403,
\* the account's run is aborted: no further page or month is requested for
\* it.
C17_AuthFailureAbortsAccount ==
    ~fa.requestedAfterAuth

\* C18: a page whose request fails for good adds no orders and the pages
\* after it in the same range are still requested; for the paging of a date
\* range: the paging of a range in which a page failed has not ended while
\* pages of the range remain after the failed one.
C18_RangePagingGoesOnAfterFailure ==
    \A i \in DOMAIN stack :
        stack[i].pageFailed /\ stack[i].pc = "ret" =>
            stack[i].offset + PageLimit >=
                Min(MaxOffset, CountInRange(up, stack[i].from, stack[i].to))

(***************************************************************************)
(*                  Claims about the failures of a chunk                   *)
(***************************************************************************)

RECURSIVE SizeOf(_, _)
\* the rows of the statements of ws that ended as ok says
SizeOf(ws, ok) ==
    IF ws = <<>> THEN 0
    ELSE (IF ws[1].ok = ok THEN Len(ws[1].ids) ELSE 0) + SizeOf(Tail(ws), ok)

NewWrites == SubSeq(sv'.writes, Len(sv.writes) + 1, Len(sv'.writes))

ChunkStep ==
    sv.pc = "chunk" /\ sv' # sv =>
        /\ sv'.i = sv.i + ChunkSize
        /\ sv'.pc = IF sv.i + ChunkSize < Len(sv.unique) THEN "chunk" ELSE "done"
        /\ NewWrites # <<>> =>
              /\ sv'.errors = sv.errors + SizeOf(NewWrites, FALSE)
              /\ sv'.saved = sv.saved + SizeOf(NewWrites, TRUE)
              /\ [k \in DOMAIN NewWrites |-> NewWrites[k].stmt] =
                    (IF ChunkPlan(db, sv.unique, sv.i).toCreate # <<>>
                     THEN <<"create">> ELSE <<>>)
                    \o (IF ChunkPlan(db, sv.unique, sv.i).toUpdate # <<>>
                        THEN <<"update">> ELSE <<>>)

BatchReturned ==
    sv.pc = "done" =>
        \/ sv.processed = Len(sv.unique)
        \/ sv.processed = 0 /\ sv.errors = Len(sv.unique) /\ sv.saved = 0

\* C19: when the createMany or the update transaction of a chunk fails, the
\* rows of that statement are added to errors and nothing else is; the
\* other statement of the chunk is still run and so are the chunks after
\* it; the call ends with its counts {saved, errors} in every case.
C19_ChunkFailureIsolated == [][ChunkStep]_vars /\ [](BatchReturned)

C19_Witness ==
    /\ sv.pc = "done"
    /\ Len(sv.writes) >= 2
    /\ sv.writes[1].stmt = "create" /\ ~sv.writes[1].ok
    /\ sv.writes[2].stmt = "update" /\ sv.writes[2].ok
    /\ sv.errors = Len(sv.writes[1].ids)
    /\ sv.saved = Len(sv.writes[2].ids)

(***************************************************************************)
(*                  Claims about the page concurrency                      *)
(***************************************************************************)

\* C20: at every moment of an account's recent paging the number of page
\* requests in flight is at most PAGE_FETCH_CONCURRENCY, and
\* PAGE_FETCH_CONCURRENCY is one of 1..5 whatever the configuration
\* variable holds, 2 when it is unset or no number.
C20_BoundedPageConcurrency ==
    /\ pf.pc = "paging" => Halves(pf.size) <= pf.concurrency
    /\ Halves(1) <= pf.concurrency /\ pf.concurrency <= Halves(5)
    /\ pf.env \in {"unset", "", "abc"} => pf.concurrency = Halves(PageFetchConcurrency)

(***************************************************************************)
(*                        Claims about the buffer                          *)
(***************************************************************************)

\* C21: with the store available, every sale that enqueueSales accepted has
\* been returned by a dequeueSales or is still stored, and a dequeue of an
\* entry longer than the limit returns its first `limit` sales and leaves
\* the others, in their order, under the same key.
C21_NoItemLost ==
    rd.faults = 0 =>
        /\ rd.accepted \subseteq (rd.served \cup Stored(rd.kv))
        /\ rd.last.op = "dequeue" /\ Len(rd.last.before) > rd.last.limit =>
              /\ rd.last.sales = SubSeq(rd.last.before, 1, rd.last.limit)
              /\ rd.last.key \in DOMAIN rd.kv
              /\ rd.kv[rd.last.key] =
                    SubSeq(rd.last.before, rd.last.limit + 1, Len(rd.last.before))

\* C22: dequeueSales serves the oldest entry of the user: the key it picks
\* carries the earliest timestamp among the user's stored entries, also
\* when the entries belong to several accounts.
C22_OldestEntryFirst ==
    rd.last.op = "dequeue" /\ rd.last.key # NoKey => rd.last.key.ts = rd.last.oldest

\* the last operation found no client or the flag down, or a command threw
StoreWasDown == ~rd.last.client \/ ~rd.last.available \/ rd.last.threw

\* C23 as stated: whenever the client is absent or flagged unavailable or a
\* store command throws, dequeueSales returns {sales: [], key: null} and
\* enqueueSales returns success = false with count 0.
C23_DownMeansFailure ==
    StoreWasDown =>
        /\ rd.last.op = "dequeue" => rd.last.sales = <<>> /\ rd.last.key = NoKey
        /\ rd.last.op = "enqueue" => ~rd.last.success /\ rd.last.count = 0

\* C23: the same, for an enqueueSales of at least one sale; an enqueueSales
\* of no sale returns success = true with count 0 and key null whatever the
\* state of the store, it does not reach the client.
C23_DownDegrades ==
    /\ StoreWasDown =>
          /\ rd.last.op = "dequeue" => rd.last.sales = <<>> /\ rd.last.key = NoKey
          /\ rd.last.op = "enqueue" /\ rd.last.given > 0 =>
                ~rd.last.success /\ rd.last.count = 0 /\ rd.last.key = NoKey
    /\ rd.last.op = "enqueue" /\ rd.last.given = 0 =>
          rd.last.success /\ rd.last.count = 0 /\ rd.last.key = NoKey

C23_Witness ==
    /\ rd.last.op = "enqueue" /\ rd.last.given > 0
    /\ rd.last.client /\ ~rd.last.available
    /\ ~rd.last.success /\ rd.last.count = 0
    /\ rd.kv # <<>>

\* ---------------------------------------------------------------------
\* Freight rule, margin and enrichment
\* ---------------------------------------------------------------------

\* the candidate costs of a call in the order the rule prefers them for its type
Candidates(p) ==
    (CASE p.shipment_logistic_type \in {"fulfillment", "cross_docking", "xd_drop_off"}
            -> <<p.base_cost, p.shipment_list_cost>>
       [] p.shipment_logistic_type = "self_service"
            -> <<p.shipping_option_cost, p.shipment_cost>>
       [] p.shipment_logistic_type = "drop_off"
            -> <<p.base_cost, p.shipment_list_cost>>
       [] OTHER -> <<>>)
    \o <<p.order_cost>>

RECURSIVE FirstMatch(_)
FirstMatch(costs) ==
    IF costs = <<>> THEN 0
    ELSE IF Head(costs) # Null THEN 0 - Head(costs)
    ELSE FirstMatch(Tail(costs))

FreteAdjustDone == calc.fn = "calcularFreteAdjust" /\ calc.done

\* C24: for every logistic type and every combination of null and non-null
\* candidate costs, calcularFreteAdjust returns the negation of the first
\* non-null cost among the type's two preferred costs followed by the
\* order-level cost, and 0 when all of them are null.
C24_FirstMatchingCost ==
    FreteAdjustDone => calc.result = FirstMatch(Candidates(calc.p))

\* self_service with base cost 10 and shipping-option cost 7 gives -7
C24_Witness ==
    /\ FreteAdjustDone
    /\ calc.p.shipment_logistic_type = "self_service"
    /\ calc.p.base_cost = Units(10)
    /\ calc.p.shipping_option_cost = Units(7)
    /\ calc.result = 0 - Units(7)

MargemDone == calc.fn = "calculateMargemContribuicao" /\ calc.done

\* the cost of goods is present and positive
CmvCounts == calc.cmv \notin {Null, NaN} /\ calc.cmv > 0

\* total + platformFee + freight - cogs, a missing fee counting as 0 and the
\* cost of goods counting only when present and positive
ExactMargin ==
    calc.valorTotal
    + (IF calc.taxaPlataforma \in {Null, NaN} THEN 0 ELSE calc.taxaPlataforma)
    + calc.frete
    - (IF CmvCounts THEN calc.cmv ELSE 0)

WholeCents(v) == v \in {Null, NaN} \/ v % 10 = 0

\* C25: calculateMargemContribuicao flags the margin real exactly when the
\* cost of goods is non-null and positive; the margin is total + platformFee
\* + freight - cogs in that case and total + platformFee + freight otherwise,
\* a null platformFee counting as 0; the value returned is that sum in whole
\* cents (the sum itself when the inputs are in whole cents, else the nearest
\* cent, halves going up); the route's and the worker's copy return the same
\* result on every input.
C25_MarginFormula ==
    MargemDone =>
        /\ calc.route.isMargemReal = CmvCounts
        /\ calc.route.valor % 10 = 0
        /\ calc.route.valor - ExactMargin \in (0 - 4)..5
        /\ (/\ WholeCents(calc.valorTotal) /\ WholeCents(calc.taxaPlataforma)
            /\ WholeCents(calc.frete) /\ WholeCents(calc.cmv)
            => calc.route.valor = ExactMargin)
        /\ calc.worker = calc.route

\* total 100, fee -10, freight -8, cost of goods 30: margin 52, real
C25_Witness ==
    /\ MargemDone
    /\ calc.valorTotal = Units(100) /\ calc.taxaPlataforma = 0 - Units(10)
    /\ calc.frete = 0 - Units(8) /\ calc.cmv = Units(30)
    /\ calc.route = [valor |-> Units(52), isMargemReal |-> TRUE]
    /\ calc.worker = calc.route

\* the same sale without a cost of goods: 82, not real
C25_WitnessNetRevenue ==
    /\ MargemDone
    /\ calc.valorTotal = Units(100) /\ calc.taxaPlataforma = 0 - Units(10)
    /\ calc.frete = 0 - Units(8) /\ calc.cmv = Null
    /\ calc.route = [valor |-> Units(82), isMargemReal |-> FALSE]

EnrichDone == en.phase = "done"

\* the shipment that belongs to order k of the page: the response to the
\* request for its own shipping id when that request succeeded, else its own
\* inline block or nothing
OwnShipment(k, shipment) ==
    IF HasShippingId(en.orders[k]) /\ en.outcome[k] = "ok"
    THEN shipment = ShipmentResponse(ShippingIdOf(en.orders[k]))
    ELSE shipment \in {InlineShipping(en.orders[k]), NoObject}

\* C26: in whatever order the shipment sub-requests of a page complete, and
\* whichever of them fail, the payload at position k carries order k and the
\* shipment answered for order k's own shipping id (or order k's fallback),
\* never that of another order, on the recent path and on the date-range path.
C26_ShipmentOfItsOwnOrder ==
    EnrichDone =>
        \A k \in 1..Len(en.orders) :
            /\ en.out[k].order.id = en.orders[k].id
            /\ OwnShipment(k, en.out[k].shipment)

\* two sub-requests of one batch completed in reverse order, one failed, and
\* the first order still carries its own shipment
C26_Witness ==
    /\ EnrichDone
    /\ en.path = "range"
    /\ Len(en.orders) >= 2
    /\ en.completion = <<2, 1>>
    /\ en.outcome[1] = "ok" /\ en.outcome[2] = "throws"
    /\ en.out[1].shipment = ShipmentResponse(11)

C26_WitnessRecent ==
    /\ EnrichDone
    /\ en.path = "recent"
    /\ en.completion = <<2, 1>>
    /\ en.outcome[1] = "ok" /\ en.outcome[2] = "ok"
    /\ en.out[2].shipment = ShipmentResponse(12)

\* the shipment sub-request of order k was made and brought nothing back
FetchFailed(k) == HasShippingId(en.orders[k]) /\ en.outcome[k] \in {"notOk", "throws"}

FallsBackToInlineBlock(k) ==
    /\ en.out[k].shipment = InlineShipping(en.orders[k])
    /\ en.out[k].freight =
           calculateFreight(en.detailedOrders[k], InlineShipping(en.orders[k]))

\* C27: whenever an order's shipment cannot be fetched (non-OK response or
\* exception), the order's inline shipping block is used as the shipment of
\* its payload and of its freight derivation, on the recent path and on the
\* date-range path.
C27_FailureFallsBackToInlineBlock ==
    EnrichDone => \A k \in 1..Len(en.orders) : FetchFailed(k) => FallsBackToInlineBlock(k)

\* the same for the recent path alone
C27_RecentPathFallsBack ==
    EnrichDone /\ en.path = "recent" =>
        \A k \in 1..Len(en.orders) : FetchFailed(k) => FallsBackToInlineBlock(k)

\* ---------------------------------------------------------------------
\* The historical walk of fetchAllOrdersForAccount
\* ---------------------------------------------------------------------

\* the historical phase was entered and its month loop has ended
WalkEnded == fa.pc = "done" /\ fa.searchStartDate # NoDate

\* every window queried after the first is the month right before the last one
ConsecutiveMonths ==
    \A j \in 2..Len(fa.windows) : fa.windows[j] = PrevMonthStart(fa.windows[j - 1])

\* the walk ended for one of the three reasons
StoppedForCause ==
    \/ fa.brk
    \/ fa.currentMonthStart <= StartDate(fa.fullSync)
    \/ now >= MaxExecutionTime - 5000

\* C28: the historical walk queries calendar months backward with no gap:
\* the first window queried contains the start date S, every next window is
\* the month right before the previous one, and the walk stops only when a
\* month returned no order, the lower date bound is reached or the time
\* budget trips.
C28_WalkBackwardWithoutGap ==
    /\ fa.windows # <<>> =>
           /\ fa.windows[1] <= fa.searchStartDate
           /\ fa.searchStartDate <= MonthEnd(fa.windows[1])
    /\ ConsecutiveMonths
    /\ WalkEnded => StoppedForCause

\* the part of it the walk does keep: consecutive months and the three causes
C28_ConsecutiveUntilCause ==
    /\ ConsecutiveMonths
    /\ WalkEnded => StoppedForCause

\* the first window queried is the month before the one holding S
C28_FirstWindowIsMonthBefore ==
    fa.windows # <<>> => fa.windows[1] = PrevMonthStart(MonthStartOf(fa.searchStartDate))

\* ---------------------------------------------------------------------
\* Progress events of saveVendasBatch
\* ---------------------------------------------------------------------

\* the loop over the chunks ran to its end
AllChunksRun == sv.pc = "done" /\ sv.unique # <<>> /\ sv.processed = Len(sv.unique)

\* ceil(n / b)
ChunkCount(n, b) == (n + b - 1) \div b

StrictlyIncreasing(s) == \A j \in 2..Len(s) : s[j - 1] < s[j]

\* C29: one invocation over n unique orders with chunk size b emits exactly
\* one progress event after each of its ceil(n / b) chunks, whether the chunk
\* succeeded, failed or held no valid record; the 'current' values increase
\* strictly and the last one is n.
C29_OneEventPerChunk ==
    AllChunksRun =>
        /\ Len(sv.progress) = ChunkCount(Len(sv.unique), ChunkSize)
        /\ StrictlyIncreasing(sv.progress)
        /\ Last(sv.progress) = Len(sv.unique)

\* what does hold: at most one event per chunk, 'current' strictly increasing
\* and never beyond n
C29_AtMostOneEventPerChunk ==
    /\ Len(sv.progress) <= ChunkCount(Len(sv.unique), ChunkSize)
    /\ StrictlyIncreasing(sv.progress)
    /\ \A j \in 1..Len(sv.progress) : sv.progress[j] <= Len(sv.unique)

\* ---------------------------------------------------------------------
\* The order-level cost of the enrichment path
\* ---------------------------------------------------------------------

FreightDone == calc.fn = "calculateFreight" /\ calc.done

\* the logistic type calculateFreight settles on: the shipment's, else the
\* order's shipping mode
SettledType ==
    IF TextField(calc.shipment, "logistic_type") # NoText
    THEN TextField(calc.shipment, "logistic_type")
    ELSE TextField(ObjectField(calc.order, "shipping"), "mode")

\* the type is one no specific rule of calcularFreteAdjust applies to
NoSpecificRule ==
    SettledType \notin
        {NoText, "", "fulfillment", "cross_docking", "xd_drop_off", "self_service",
         "drop_off"}

\* order.shipping.cost
InlineShippingCost == Field(ObjectField(calc.order, "shipping"), "cost")

\* C30: in calculateFreight the order-level cost handed to the freight rule
\* as its last fallback is the order's inline shipping cost: an order whose
\* logistic type matches no specific rule and whose shipping cost is c gets
\* the adjusted cost -c.
C30_FallbackIsInlineShippingCost ==
    FreightDone /\ NoSpecificRule /\ InlineShippingCost # Null
        => /\ calc.result.orderCostFallback = InlineShippingCost
           /\ calc.result.adjustedCost = 0 - InlineShippingCost

\* what the rule is handed instead: the rounded unit price times the quantity
C30_FallbackIsOrderValue ==
    FreightDone /\ NoSpecificRule =>
        LET handed == OrderCostOf(calc.result.unitPrice, calc.result.quantity)
        IN  calc.result.adjustedCost =
                IF handed = Null THEN 0
                ELSE IF handed = Sentinel THEN Null
                ELSE 0 - handed

\* ---------------------------------------------------------------------
\* Coverage of a split range by its sub-ranges
\* ---------------------------------------------------------------------

\* the sub-ranges of frame f follow each other with no instant between them
SubRangesContiguous(f) ==
    \A j \in 2..Len(f.subs) : f.subs[j][1] <= f.subs[j - 1][2]

\* the sub-ranges of a frame that has finished splitting reach both ends
SubRangesReachEnds(f) ==
    /\ f.subs[1][1] = f.from
    /\ f.pc = "ret" => Last(f.subs)[2] = f.to

\* C31: when fetchOrdersInDateRange splits [dateFrom, dateTo], the union of
\* the sub-ranges it recurses on is [dateFrom, dateTo]: the first starts at
\* dateFrom, the last ends at dateTo and no instant of the range lies between
\* the end of one sub-range and the start of the next.
C31_SubRangesCoverParent ==
    \A d \in 1..Len(stack) :
        stack[d].subs # <<>> =>
            SubRangesContiguous(stack[d]) /\ SubRangesReachEnds(stack[d])

\* the gap the splitter leaves: every next sub-range starts one day after the
\* end of the previous one
C31_OneDayBetweenSubRanges ==
    \A d \in 1..Len(stack) :
        \A j \in 2..Len(stack[d].subs) :
            stack[d].subs[j][1] = stack[d].subs[j - 1][2] + Day

\* ---------------------------------------------------------------------
\* Pages in flight when the account's fetch returns
\* ---------------------------------------------------------------------

\* C32: when fetchAllOrdersForAccount returns, no page request it scheduled
\* is still in flight, so that every page that completes during the run has
\* its orders in the batch the run deduplicates, counts and persists: no
\* page brings orders after the batch was handed to persistence.
C32_NoPageAfterTheBatch ==
    /\ fa.pc = "done" => fa.active = {}
    /\ run.pc = "done" => run.missed = 0

\* a fetch that is not cut short by the time budget returns with no page in
\* flight
C32_QuietUnlessForcedStop ==
    fa.pc = "done" /\ ~fa.forcedStop => fa.active = {}

\* ---------------------------------------------------------------------
\* The continuation chain on complete data
\* ---------------------------------------------------------------------

\* a run that started with every upstream order persisted has ended, and no
\* request of it or before it failed
CompleteRunEnded == run.pc = "done" /\ run.startedComplete /\ ~failed

\* C33: if every upstream order of the account is already persisted when a
\* run starts and no failure occurs, the run ends with hasMoreToSync false
\* (and so issues no follow-up), whatever the account's total is.
C33_CompleteDataEndsTheChain ==
    CompleteRunEnded => ~run.hasMoreToSync

\* with a fast upstream and a total one run can fetch, it does end the chain
C33_SmallFastAccountEndsTheChain ==
    CompleteRunEnded /\ latency = 100 /\ SumN(up) <= SafeBatchSize => ~run.hasMoreToSync

\* ---------------------------------------------------------------------
\* The accounting of saveVendasBatch
\* ---------------------------------------------------------------------

\* C34: for every input batch and every pattern of preparation failures and
\* store failures, saveVendasBatch returns saved + errors equal to the number
\* of unique orders of the batch: each is counted once, as saved or as error.
C34_SavedPlusErrorsIsUnique ==
    sv.pc = "done" => sv.saved + sv.errors = Len(sv.unique)

\* no unique order is counted twice
C34_NeverCountedTwice ==
    sv.saved + sv.errors <= Len(sv.unique)

\* when every record of the batch can be prepared the accounting is exact
C34_ExactWhenAllValid ==
    sv.pc = "done" /\ Len(ValidData(MapPrepare(sv.unique))) = Len(sv.unique)
        => sv.saved + sv.errors = Len(sv.unique)


\* ---------------------------------------------------------------------
\* The worker (SpecWorker)
\* ---------------------------------------------------------------------

\* the sales still queued under keys of the index
StillQueued == UNION {Items(rd.kv[k]) : k \in rd.index \cap DOMAIN rd.kv}

Persisted == {r.sale : r \in wk.rows}

\* C35: every sale the worker removed from the queue is persisted to the
\* store or is in the queue afterwards: a batch whose save fails or whose
\* processing throws is retried or re-enqueued rather than lost.
C35_DequeuedSaleIsSavedOrQueued ==
    wk.pc = "done" => \A s \in wk.taken : s \in Persisted \/ s \in StillQueued

\* C35 (part that holds): a sale the worker removed never stays in the queue,
\* so nothing puts a failed sale back.
C35_TakenNeverQueuedAgain == \A s \in wk.taken : s \notin StillQueued

C35_WitnessLost ==
    /\ wk.pc = "done" /\ wk.taken # {}
    /\ \E s \in wk.taken : s \notin Persisted

\* C36: when processAllUserSales returns with the store available all along,
\* no sale remains queued for the user, whatever the head of the index
\* holds.
C36_ReturnsWithEmptyQueue ==
    [][(wk.pc = "batch" /\ wk'.pc = "done" /\ ~wk'.degraded)
          => UNION {Items(rd'.kv[k]) : k \in rd'.index \cap DOMAIN rd'.kv} = {}]_vars

\* C36 (part that holds): with no entry expired and no progress send thrown,
\* the worker returns only from an empty queue.
C36_DrainsWhenNothingExpired ==
    [][(/\ wk.pc = "batch" /\ wk'.pc = "done" /\ ~wk'.degraded
        /\ wk.retryCount = 0 /\ rd.index \subseteq DOMAIN rd.kv)
          => UNION {Items(rd'.kv[k]) : k \in rd'.index \cap DOMAIN rd'.kv} = {}]_vars

C36_WitnessDrained ==
    /\ wk.pc = "done" /\ ~wk.degraded /\ wk.totalProcessed > 0
    /\ StillQueued = {} /\ rd.index = {}

\* C39: the cost applied to a user's sale comes from that user's catalog,
\* as the catalog stood no earlier than the start of the invocation that
\* saved the sale.
C39_CostFromOwnCurrentCatalog ==
    \A r \in wk.rows :
        /\ r.cost.user = r.userId
        /\ r.cost.version >= r.startVersion

C39_WitnessSecondUser == \E r \in wk.rows : r.userId = "u2"


\* ---------------------------------------------------------------------
\* Keys of the buffer (SpecQueue)
\* ---------------------------------------------------------------------

\* the step is an enqueueSales call the store accepted
EnqueueAccepted ==
    /\ rd'.next > rd.next
    /\ rd'.last.op = "enqueue" /\ rd'.last.success /\ ~rd'.last.threw

\* C37: an accepted enqueueSales call never overwrites an entry: its key is
\* new, so the queued items grow by the size of its batch, also when an
\* earlier call for the same account fell in the same clock millisecond.
C37_EnqueueNeverOverwrites ==
    [][EnqueueAccepted =>
          /\ rd'.last.key \notin DOMAIN rd.kv
          /\ Cardinality(Stored(rd'.kv)) = Cardinality(Stored(rd.kv)) + rd'.last.count]_vars

\* C37 (part that holds): a call whose account has no entry of the same
\* millisecond adds its whole batch and leaves every other entry alone.
C37_LaterMillisecondAddsBatch ==
    [][(EnqueueAccepted /\ rd'.last.key \notin DOMAIN rd.kv) =>
          /\ Cardinality(Stored(rd'.kv)) = Cardinality(Stored(rd.kv)) + rd'.last.count
          /\ \A k \in DOMAIN rd.kv : k \in DOMAIN rd'.kv /\ rd'.kv[k] = rd.kv[k]]_vars

C37_WitnessTwoEntriesOfOneAccount ==
    \E k1, k2 \in DOMAIN rd.kv : k1.account = k2.account /\ k1.ts # k2.ts


\* C38: once a failed store command has flagged the store unavailable, later
\* calls come to run against the store again, whichever way the client was
\* configured.
C38_AvailabilityRecovers == (rd.client /\ ~rd.isRedisAvailable) ~> rd.isRedisAvailable

\* C38 (part that holds): the client built from host and port recovers.
C38_RecoversWithHostAndPort ==
    (rd.client /\ ~rd.byUrl /\ ~rd.isRedisAvailable) ~> rd.isRedisAvailable

\* C38 (part that holds): with REDIS_URL a cleared flag is never set again.
C38_UrlClientStaysDown ==
    [][(rd.byUrl /\ ~rd.isRedisAvailable) => ~rd'.isRedisAvailable]_vars

C38_WitnessRecovered ==
    /\ rd.client /\ ~rd.byUrl /\ rd.isRedisAvailable /\ rd.faults > 0
    /\ rd.last.success /\ rd.last.available


\* ---------------------------------------------------------------------
\* The follow-up request and the handler's authentication (SpecAuth)
\* ---------------------------------------------------------------------

\* the handler has received a follow-up request of the chain
FollowUpReceived == au.chain > 0 /\ ~au.pending

\* C40: the follow-up request of an accepted run is accepted, not answered
\* 401, whether the first request of the chain was accepted by its session
\* cookie or by the cron secret.
C40_ContinuationIsAccepted == FollowUpReceived => au.status # 401

\* C40 (part that holds): the follow-up of a run accepted by its session
\* cookie is accepted as the same user.
C40_SessionContinuationIsAccepted ==
    (FollowUpReceived /\ au.origin = "session") =>
        /\ au.by = "session" /\ au.status \in {0, 200}
        /\ au.userId = tryVerifySessionToken(au.req.cookie)

\* C40 (part that holds): the follow-up never carries the cron secret, so it
\* is accepted by a session cookie or not at all.
C40_ContinuationNeverByCron == FollowUpReceived => au.by # "cron"

C40_WitnessSessionChain ==
    FollowUpReceived /\ au.origin = "session" /\ au.by = "session"

C40_WitnessCronChainRefused ==
    FollowUpReceived /\ au.origin = "cron" /\ au.status = 401

====
